---- MODULE Spec2Model ----
(***************************************************************************)
(* DecentraLogix ledger core: TripRegistry (job registry) and              *)
(* PaymentEscrow (conditional escrow), modelled from the Solidity          *)
(* contracts.  One action per external function.  Each function has an     *)
(* operator <name>Err giving the revert reason of a call in the current    *)
(* state ("" when the call goes through); a reverted transaction rolls     *)
(* back every change, so it is a step that leaves all variables as they    *)
(* were and the action is enabled only for calls that go through.  Ether   *)
(* movements are tracked in `held` (the escrow contract's balance),        *)
(* `ledger` (per-escrow sums of the value that actually moved), `received` *)
(* (value each principal got from the contract) and `donated` (value sent  *)
(* to the contract's bare receive function).  `statusUpdated` is the log   *)
(* of EscrowStatusUpdated events, kept per escrow.                         *)
(*                                                                         *)
(* Principals are externally owned accounts: a value transfer to them      *)
(* runs no code and fails only when the contract cannot cover it.  Opaque  *)
(* strings that no guard reads (locations, reasons) are left out; the IPFS *)
(* hash is kept as a string.  All transactions of a behaviour of Spec and  *)
(* of SpecTrip fall into one block, so block.timestamp is the fixed        *)
(* non-zero value `now`; SpecClock adds the passing of time (Tick).        *)
(* SpecTrip is the registry alone with every status the administrator can  *)
(* force and with transfers of the ERC721 token.  SpecIds joins the        *)
(* registry, the escrow and the CarbonCredits reward ledger (mintReward,   *)
(* burnCredits) to follow the identifiers the three of them hand out.      *)
(* SpecReward is the reward ledger alone, SpecSupply adds the inherited    *)
(* ERC20 transfer and the total `burned`.  SpecParties lets any party open *)
(* an escrow for any payee, SpecCompletion joins releaseOnTripCompletion   *)
(* with the owner's status override.  In SpecReentry the recipient of a    *)
(* transfer is a contract that calls back into the escrow while the        *)
(* transfer is in progress: `inCall` is the paying call whose transfer is  *)
(* running and `reentrancyStatus` the ReentrancyGuard flag.                *)
(***************************************************************************)
EXTENDS Integers, Sequences, FiniteSets, TLC

\* ---------------------------------------------------------------- bounds
MaxTrips == 1
MaxEscrows == 2
MaxAmount == 2
MaxDonation == 1
MaxTime == 3
MaxRewards == 2

\* ------------------------------------------------------------ principals
Zero == "zero"
Owner == "owner"
Shipper == "shipper"
Carrier == "carrier"
Receiver == "receiver"
Principals == {Owner, Shipper, Carrier, Receiver}

\* ---------------------------------------------------------------- enums
TripStatus == {"Created", "InTransit", "Delivered", "Cancelled", "Disputed"}
EscrowStatus == {"Pending", "PartiallyReleased", "Released", "Refunded", "Disputed"}
RewardType == {"TripCompletion", "LowCarbonFootprint", "CarbonNeutral",
               "BatchOptimization", "SustainableMode"}

\* ------------------------------------------------------ input domains
TripIdInputs == 0..MaxTrips
EscrowIdInputs == 0..MaxEscrows
ValueInputs == 0..2
ReleaseInputs == 0..MaxAmount
Callers == Principals
TripCreators == {Shipper}
CarrierInputs == {Carrier, Shipper, Zero}
ReceiverInputs == {Receiver, Zero}
DistanceInputs == {0, 1}
HashInputs == {""}
StatusInputs == {"Delivered"}
EscrowCreators == {Shipper}
PayeeInputs == {Carrier, Zero}
DonationInputs == {1}

Cond(rtc, mp, cp) ==
    [requiresTripCompletion |-> rtc, requiresDeliveryProof |-> FALSE,
     requiresReceiverConfirmation |-> FALSE,
     milestonePercentage |-> mp, completionPercentage |-> cp]

ConditionInputs ==
    {Cond(TRUE, 0, 100), Cond(TRUE, 50, 50), Cond(FALSE, 100, 0),
     Cond(TRUE, 60, 50), Cond(FALSE, 200, 100)}

\* ------------------------------------------------------------- state
VARIABLES now, tripCounter, tokenCounter, trips, tokenToTrip, tripToToken,
          tokenOwner, tokenURIs,
          escrowCounter, escrows, tripToEscrow,
          held, ledger, received, donated, statusUpdated,
          reentrancyStatus, inCall,
          rewardCounter, rewards, userRewards, totalCarbonOffset,
          rewardParameters, claimedRewards, balanceOf, burned

tripVars == <<tripCounter, tokenCounter, trips, tokenToTrip, tripToToken,
              tokenOwner, tokenURIs>>
escrowVars == <<escrowCounter, escrows, tripToEscrow, held, ledger, received,
                donated, statusUpdated, reentrancyStatus, inCall>>
rewardVars == <<rewardCounter, rewards, userRewards, totalCarbonOffset,
                rewardParameters, claimedRewards, balanceOf, burned>>
vars == <<now, tripVars, escrowVars, rewardVars>>

ZeroTrip ==
    [tripId |-> 0, shipper |-> Zero, carrier |-> Zero, receiver |-> Zero,
     distance |-> 0, estimatedCarbonFootprint |-> 0, status |-> "Created",
     createdAt |-> 0, startedAt |-> 0, completedAt |-> 0,
     ipfsMetadataHash |-> ""]

ZeroEscrow ==
    [escrowId |-> 0, tripId |-> 0, payer |-> Zero, payee |-> Zero,
     amount |-> 0, releasedAmount |-> 0, status |-> "Pending",
     createdAt |-> 0, releasedAt |-> 0, conditions |-> Cond(FALSE, 0, 0)]

ZeroReward ==
    [rewardId |-> 0, recipient |-> Zero, tripId |-> 0, amount |-> 0,
     carbonOffset |-> 0, rewardType |-> "TripCompletion", createdAt |-> 0,
     claimedAt |-> 0]

\* The parameters the CarbonCredits constructor sets.
DefaultRewardParameters ==
    [baseMultiplier |-> 100, lowCarbonBonus |-> 20, carbonNeutralBonus |-> 50,
     batchOptimizationBonus |-> 15]

\* No value transfer of the escrow contract is in progress.
NoCall == [kind |-> "none", escrowId |-> 0, recipient |-> Zero]

ZeroLedger ==
    [deposits |-> 0, release |-> 0, completion |-> 0, milestone |-> 0,
     refund |-> 0]

\* A Solidity mapping read: the zero value for a key never written.
TripAt(tripId) == IF tripId \in DOMAIN trips THEN trips[tripId] ELSE ZeroTrip
EscrowAt(escrowId) ==
    IF escrowId \in DOMAIN escrows THEN escrows[escrowId] ELSE ZeroEscrow
RewardAt(rewardId) ==
    IF rewardId \in DOMAIN rewards THEN rewards[rewardId] ELSE ZeroReward
EscrowOfTrip(tripId) ==
    IF tripId \in DOMAIN tripToEscrow THEN tripToEscrow[tripId] ELSE 0

Init ==
    /\ now = 1
    /\ tripCounter = 0
    /\ tokenCounter = 0
    /\ trips = [t \in 1..MaxTrips |-> ZeroTrip]
    /\ tokenToTrip = [t \in 1..MaxTrips |-> 0]
    /\ tripToToken = [t \in 1..MaxTrips |-> 0]
    /\ tokenOwner = [t \in 1..MaxTrips |-> Zero]
    /\ tokenURIs = [t \in 1..MaxTrips |-> ""]
    /\ escrowCounter = 0
    /\ escrows = [e \in 1..MaxEscrows |-> ZeroEscrow]
    /\ tripToEscrow = [t \in 1..MaxTrips |-> 0]
    /\ held = 0
    /\ ledger = [e \in 1..MaxEscrows |-> ZeroLedger]
    /\ received = [p \in Principals |-> 0]
    /\ donated = 0
    /\ statusUpdated = [e \in 1..MaxEscrows |-> <<>>]
    /\ reentrancyStatus = "NOT_ENTERED"
    /\ inCall = NoCall
    /\ rewardCounter = 0
    /\ rewards = [r \in 1..MaxRewards |-> ZeroReward]
    /\ userRewards = [p \in Principals |-> <<>>]
    /\ totalCarbonOffset = [p \in Principals |-> 0]
    /\ rewardParameters = DefaultRewardParameters
    /\ claimedRewards = [r \in 1..MaxRewards |-> FALSE]
    /\ balanceOf = [p \in Principals |-> 0]
    /\ burned = 0

\* ======================================================= TripRegistry
\* Variant: the caller may name itself as carrier.
createTripErr_OwnCarrierAllowed(caller, carrier, receiver, distance, carbon) ==
    IF carrier = Zero THEN "TripRegistry: Invalid carrier address"
    ELSE IF receiver = Zero THEN "TripRegistry: Invalid receiver address"
    ELSE IF ~(distance > 0) THEN "TripRegistry: Distance must be greater than 0"
    ELSE IF ~(carbon > 0) THEN "TripRegistry: Carbon footprint must be greater than 0"
    ELSE ""

\* Variant: the receiver must differ from the caller and from the carrier.
createTripErr_DistinctParties(caller, carrier, receiver, distance, carbon) ==
    IF carrier = Zero THEN "TripRegistry: Invalid carrier address"
    ELSE IF receiver = Zero THEN "TripRegistry: Invalid receiver address"
    ELSE IF carrier = caller THEN "TripRegistry: Cannot be own carrier"
    ELSE IF receiver = caller \/ receiver = carrier
         THEN "TripRegistry: Invalid receiver address"
    ELSE IF ~(distance > 0) THEN "TripRegistry: Distance must be greater than 0"
    ELSE IF ~(carbon > 0) THEN "TripRegistry: Carbon footprint must be greater than 0"
    ELSE ""

createTripErr(caller, carrier, receiver, distance, carbon) ==
    IF carrier = Zero THEN "TripRegistry: Invalid carrier address"
    ELSE IF receiver = Zero THEN "TripRegistry: Invalid receiver address"
    ELSE IF carrier = caller THEN "TripRegistry: Cannot be own carrier"
    ELSE IF ~(distance > 0) THEN "TripRegistry: Distance must be greater than 0"
    ELSE IF ~(carbon > 0) THEN "TripRegistry: Carbon footprint must be greater than 0"
    ELSE ""

createTrip(caller, carrier, receiver, distance, carbon, hash) ==
    /\ tripCounter < MaxTrips
    /\ LET err == createTripErr(caller, carrier, receiver, distance, carbon)
           tripId == tripCounter + 1
           tokenId == tokenCounter + 1
       IN /\ err = ""
          /\ tripCounter' = tripId
          /\ tokenCounter' = tokenId
          /\ trips' = [trips EXCEPT ![tripId] =
                [tripId |-> tripId, shipper |-> caller, carrier |-> carrier,
                 receiver |-> receiver, distance |-> distance,
                 estimatedCarbonFootprint |-> carbon, status |-> "Created",
                 createdAt |-> now, startedAt |-> 0, completedAt |-> 0,
                 ipfsMetadataHash |-> hash]]
          /\ tokenToTrip' = [tokenToTrip EXCEPT ![tokenId] = tripId]
          /\ tripToToken' = [tripToToken EXCEPT ![tripId] = tokenId]
          /\ tokenOwner' = [tokenOwner EXCEPT ![tokenId] = caller]
          /\ tokenURIs' = IF hash # ""
                          THEN [tokenURIs EXCEPT ![tokenId] = hash]
                          ELSE tokenURIs
          /\ UNCHANGED <<now, escrowVars, rewardVars>>

\* Variant: start without the status requirement.
startTripErr_AnyStatus(caller, tripId) ==
    IF TripAt(tripId).tripId = 0 THEN "TripRegistry: Trip does not exist"
    ELSE IF TripAt(tripId).carrier # caller THEN "TripRegistry: Not authorized carrier"
    ELSE ""

startTripErr(caller, tripId) ==
    IF TripAt(tripId).tripId = 0 THEN "TripRegistry: Trip does not exist"
    ELSE IF TripAt(tripId).carrier # caller THEN "TripRegistry: Not authorized carrier"
    ELSE IF TripAt(tripId).status # "Created" THEN "TripRegistry: Trip cannot be started"
    ELSE ""

startTrip(caller, tripId) ==
    LET err == startTripErr(caller, tripId)
    IN /\ err = ""
       /\ trips' = [trips EXCEPT ![tripId].status = "InTransit",
                                 ![tripId].startedAt = now]
       /\ UNCHANGED <<now, tripCounter, tokenCounter, tokenToTrip,
                      tripToToken, tokenOwner, tokenURIs, escrowVars,
                      rewardVars>>

\* Variant: completion without the status requirement.
completeTripErr_AnyStatus(caller, tripId) ==
    IF TripAt(tripId).tripId = 0 THEN "TripRegistry: Trip does not exist"
    ELSE IF TripAt(tripId).carrier # caller THEN "TripRegistry: Not authorized carrier"
    ELSE ""

completeTripErr(caller, tripId) ==
    IF TripAt(tripId).tripId = 0 THEN "TripRegistry: Trip does not exist"
    ELSE IF TripAt(tripId).carrier # caller THEN "TripRegistry: Not authorized carrier"
    ELSE IF TripAt(tripId).status # "InTransit" THEN "TripRegistry: Trip cannot be completed"
    ELSE ""

completeTrip(caller, tripId, proof) ==
    LET err == completeTripErr(caller, tripId)
    IN /\ err = ""
       /\ trips' = [trips EXCEPT
             ![tripId].status = "Delivered",
             ![tripId].completedAt = now,
             ![tripId].ipfsMetadataHash = IF proof # "" THEN proof ELSE @]
       /\ tokenURIs' = IF proof # ""
                       THEN [tokenURIs EXCEPT ![tripToToken[tripId]] = proof]
                       ELSE tokenURIs
       /\ UNCHANGED <<now, tripCounter, tokenCounter, tokenToTrip,
                      tripToToken, tokenOwner, escrowVars, rewardVars>>

\* Variant: cancellation without the status requirement.
cancelTripErr_AnyStatus(caller, tripId) ==
    IF TripAt(tripId).tripId = 0 THEN "TripRegistry: Trip does not exist"
    ELSE IF ~(TripAt(tripId).shipper = caller \/ TripAt(tripId).carrier = caller)
         THEN "TripRegistry: Not authorized"
    ELSE ""

\* Variant: cancellation open to every party authorized for the job.
cancelTripErr_AnyAuthorized(caller, tripId) ==
    IF TripAt(tripId).tripId = 0 THEN "TripRegistry: Trip does not exist"
    ELSE IF ~(\/ TripAt(tripId).shipper = caller
              \/ TripAt(tripId).carrier = caller
              \/ TripAt(tripId).receiver = caller
              \/ Owner = caller)
         THEN "TripRegistry: Not authorized"
    ELSE IF ~(TripAt(tripId).status \in {"Created", "InTransit"})
         THEN "TripRegistry: Trip cannot be cancelled"
    ELSE ""

\* Variant: the right to cancel follows the job's token, not the shipper.
cancelTripErr_ByTokenOwner(caller, tripId) ==
    IF TripAt(tripId).tripId = 0 THEN "TripRegistry: Trip does not exist"
    ELSE IF ~(tokenOwner[tripToToken[tripId]] = caller \/ TripAt(tripId).carrier = caller)
         THEN "TripRegistry: Not authorized"
    ELSE IF ~(TripAt(tripId).status \in {"Created", "InTransit"})
         THEN "TripRegistry: Trip cannot be cancelled"
    ELSE ""

cancelTripErr(caller, tripId) ==
    IF TripAt(tripId).tripId = 0 THEN "TripRegistry: Trip does not exist"
    ELSE IF ~(TripAt(tripId).shipper = caller \/ TripAt(tripId).carrier = caller)
         THEN "TripRegistry: Not authorized"
    ELSE IF ~(TripAt(tripId).status \in {"Created", "InTransit"})
         THEN "TripRegistry: Trip cannot be cancelled"
    ELSE ""

cancelTrip(caller, tripId) ==
    LET err == cancelTripErr(caller, tripId)
    IN /\ err = ""
       /\ trips' = [trips EXCEPT ![tripId].status = "Cancelled"]
       /\ UNCHANGED <<now, tripCounter, tokenCounter, tokenToTrip,
                      tripToToken, tokenOwner, tokenURIs, escrowVars,
                      rewardVars>>

\* Variant: the status override without the onlyOwner modifier.
updateTripStatusErr_AnyCaller(caller, tripId) ==
    IF TripAt(tripId).tripId = 0 THEN "TripRegistry: Trip does not exist"
    ELSE ""

updateTripStatusErr(caller, tripId) ==
    IF caller # Owner THEN "OwnableUnauthorizedAccount"
    ELSE IF TripAt(tripId).tripId = 0 THEN "TripRegistry: Trip does not exist"
    ELSE ""

updateTripStatus(caller, tripId, newStatus) ==
    LET err == updateTripStatusErr(caller, tripId)
    IN /\ err = ""
       /\ trips' = [trips EXCEPT ![tripId].status = newStatus]
       /\ UNCHANGED <<now, tripCounter, tokenCounter, tokenToTrip,
                      tripToToken, tokenOwner, tokenURIs, escrowVars,
                      rewardVars>>

\* getTripMetadata reverts for an unknown trip; callers see that as a failure.
getTripMetadataReverts(tripId) == TripAt(tripId).tripId = 0

\* getTripIdByToken: the job of a minted token (reverts for an unminted one).
getTripIdByTokenReverts(tokenId) ==
    ~(tokenId \in DOMAIN tokenOwner /\ tokenOwner[tokenId] # Zero)
getTripIdByToken(tokenId) ==
    IF tokenId \in DOMAIN tokenToTrip THEN tokenToTrip[tokenId] ELSE 0

\* getTokenIdByTrip: the token of a stored job (reverts for an unknown job).
getTokenIdByTrip(tripId) ==
    IF tripId \in DOMAIN tripToToken THEN tripToToken[tripId] ELSE 0

\* Variant: no early return for a job that does not exist.
isAuthorizedForTrip_NoExistenceCheck(tripId, account) ==
    \/ TripAt(tripId).shipper = account
    \/ TripAt(tripId).carrier = account
    \/ TripAt(tripId).receiver = account
    \/ Owner = account

isAuthorizedForTrip(tripId, account) ==
    IF TripAt(tripId).tripId = 0 THEN FALSE
    ELSE \/ TripAt(tripId).shipper = account
         \/ TripAt(tripId).carrier = account
         \/ TripAt(tripId).receiver = account
         \/ Owner = account

getTotalTrips == tripCounter

\* ERC721 transferFrom as inherited by the registry (no approvals are ever
\* given, so only the token's owner can move it).
transferFromErr(caller, from, to, tokenId) ==
    IF to = Zero THEN "ERC721InvalidReceiver"
    ELSE IF getTripIdByTokenReverts(tokenId) THEN "ERC721NonexistentToken"
    ELSE IF tokenOwner[tokenId] # caller THEN "ERC721InsufficientApproval"
    ELSE IF tokenOwner[tokenId] # from THEN "ERC721IncorrectOwner"
    ELSE ""

transferFrom(caller, from, to, tokenId) ==
    LET err == transferFromErr(caller, from, to, tokenId)
    IN /\ err = ""
       /\ tokenOwner' = [tokenOwner EXCEPT ![tokenId] = to]
       /\ UNCHANGED <<now, tripCounter, tokenCounter, trips, tokenToTrip,
                      tripToToken, tokenURIs, escrowVars, rewardVars>>

\* A later block: block.timestamp never decreases.
Tick ==
    /\ now < MaxTime
    /\ now' = now + 1
    /\ UNCHANGED <<tripVars, escrowVars, rewardVars>>

\* ====================================================== PaymentEscrow
\* Variant: unchecked uint8 addition, wrapping modulo 2^8.
PercentageSum_Wrapping(conditions) ==
    (conditions.milestonePercentage + conditions.completionPercentage) % 256

\* uint8 addition of the two percentages: checked arithmetic, panics above 255.
PercentageSum(conditions) ==
    conditions.milestonePercentage + conditions.completionPercentage

\* Variant: the one-escrow-per-trip requirement is missing.
createEscrowErr_NoDuplicateCheck(caller, tripId, payee, conditions, value) ==
    IF ~(value > 0) THEN "PaymentEscrow: Must send payment"
    ELSE IF payee = Zero THEN "PaymentEscrow: Invalid payee address"
    ELSE IF getTripMetadataReverts(tripId) THEN "PaymentEscrow: Trip does not exist"
    ELSE IF PercentageSum(conditions) > 255 THEN "Panic: arithmetic overflow"
    ELSE IF ~(PercentageSum(conditions) <= 100) THEN "PaymentEscrow: Invalid percentage sum"
    ELSE ""

\* Variant: the registry is not asked whether the trip exists.
createEscrowErr_NoTripCheck(caller, tripId, payee, conditions, value) ==
    IF ~(value > 0) THEN "PaymentEscrow: Must send payment"
    ELSE IF payee = Zero THEN "PaymentEscrow: Invalid payee address"
    ELSE IF EscrowOfTrip(tripId) # 0 THEN "PaymentEscrow: Escrow already exists for trip"
    ELSE IF PercentageSum(conditions) > 255 THEN "Panic: arithmetic overflow"
    ELSE IF ~(PercentageSum(conditions) <= 100) THEN "PaymentEscrow: Invalid percentage sum"
    ELSE ""

createEscrowErr(caller, tripId, payee, conditions, value) ==
    IF ~(value > 0) THEN "PaymentEscrow: Must send payment"
    ELSE IF payee = Zero THEN "PaymentEscrow: Invalid payee address"
    ELSE IF EscrowOfTrip(tripId) # 0 THEN "PaymentEscrow: Escrow already exists for trip"
    ELSE IF getTripMetadataReverts(tripId) THEN "PaymentEscrow: Trip does not exist"
    ELSE IF PercentageSum(conditions) > 255 THEN "Panic: arithmetic overflow"
    ELSE IF ~(PercentageSum(conditions) <= 100) THEN "PaymentEscrow: Invalid percentage sum"
    ELSE ""

createEscrow(caller, tripId, payee, conditions, value) ==
    /\ escrowCounter < MaxEscrows
    /\ value <= MaxAmount
    /\ LET err == createEscrowErr(caller, tripId, payee, conditions, value)
           escrowId == escrowCounter + 1
       IN /\ err = ""
          /\ escrowCounter' = escrowId
          /\ escrows' = [escrows EXCEPT ![escrowId] =
                [escrowId |-> escrowId, tripId |-> tripId, payer |-> caller,
                 payee |-> payee, amount |-> value, releasedAmount |-> 0,
                 status |-> "Pending", createdAt |-> now, releasedAt |-> 0,
                 conditions |-> conditions]]
          /\ tripToEscrow' = [tripToEscrow EXCEPT ![tripId] = escrowId]
          /\ held' = held + value
          /\ ledger' = [ledger EXCEPT ![escrowId].deposits = @ + value]
          /\ UNCHANGED <<now, tripVars, rewardVars, received, donated,
                         statusUpdated, reentrancyStatus, inCall>>

\* Variant: deposits are accepted in any status.
depositToEscrowErr_AnyStatus(caller, escrowId, value) ==
    IF EscrowAt(escrowId).escrowId = 0 THEN "PaymentEscrow: Escrow does not exist"
    ELSE IF ~(value > 0) THEN "PaymentEscrow: Must send payment"
    ELSE IF EscrowAt(escrowId).payer # caller THEN "PaymentEscrow: Only payer can deposit"
    ELSE ""

\* Variant: any account may add funds to an escrow.
depositToEscrowErr_AnyCaller(caller, escrowId, value) ==
    IF EscrowAt(escrowId).escrowId = 0 THEN "PaymentEscrow: Escrow does not exist"
    ELSE IF ~(value > 0) THEN "PaymentEscrow: Must send payment"
    ELSE IF ~(EscrowAt(escrowId).status \in {"Pending", "PartiallyReleased"})
         THEN "PaymentEscrow: Cannot deposit to escrow"
    ELSE ""

depositToEscrowErr(caller, escrowId, value) ==
    IF EscrowAt(escrowId).escrowId = 0 THEN "PaymentEscrow: Escrow does not exist"
    ELSE IF ~(value > 0) THEN "PaymentEscrow: Must send payment"
    ELSE IF EscrowAt(escrowId).payer # caller THEN "PaymentEscrow: Only payer can deposit"
    ELSE IF ~(EscrowAt(escrowId).status \in {"Pending", "PartiallyReleased"})
         THEN "PaymentEscrow: Cannot deposit to escrow"
    ELSE ""

depositToEscrow(caller, escrowId, value) ==
    /\ EscrowAt(escrowId).amount + value <= MaxAmount
    /\ LET err == depositToEscrowErr(caller, escrowId, value)
       IN /\ err = ""
          /\ escrows' = [escrows EXCEPT ![escrowId].amount = @ + value]
          /\ held' = held + value
          /\ ledger' = [ledger EXCEPT ![escrowId].deposits = @ + value]
          /\ UNCHANGED <<now, tripVars, rewardVars, escrowCounter, tripToEscrow,
                      received, donated, statusUpdated, reentrancyStatus,
                      inCall>>

\* payable(to).call{value: v}(""): fails when the contract cannot cover v.
TransferFails(to, value) == held < value

\* Status written after releasedAmount has been increased.
StatusAfterRelease(amount, releasedAmount) ==
    IF releasedAmount >= amount THEN "Released" ELSE "PartiallyReleased"

\* Variant: the available-balance requirement is missing.
releasePaymentErr_NoBalanceCheck(caller, escrowId, amount) ==
    LET escrow == EscrowAt(escrowId)
    IN IF escrow.escrowId = 0 THEN "PaymentEscrow: Escrow does not exist"
       ELSE IF ~(escrow.status \in {"Pending", "PartiallyReleased"})
            THEN "PaymentEscrow: Cannot release payment"
       ELSE IF reentrancyStatus = "ENTERED" THEN "ReentrancyGuardReentrantCall"
       ELSE IF ~(amount > 0) THEN "PaymentEscrow: Amount must be greater than 0"
       ELSE IF ~(caller = Owner \/ caller = escrow.payer)
            THEN "PaymentEscrow: Not authorized to release"
       ELSE IF TransferFails(escrow.payee, amount) THEN "PaymentEscrow: Transfer failed"
       ELSE ""

\* Variant: anyone may release.
releasePaymentErr_NoAuthCheck(caller, escrowId, amount) ==
    LET escrow == EscrowAt(escrowId)
    IN IF escrow.escrowId = 0 THEN "PaymentEscrow: Escrow does not exist"
       ELSE IF ~(escrow.status \in {"Pending", "PartiallyReleased"})
            THEN "PaymentEscrow: Cannot release payment"
       ELSE IF reentrancyStatus = "ENTERED" THEN "ReentrancyGuardReentrantCall"
       ELSE IF ~(amount > 0) THEN "PaymentEscrow: Amount must be greater than 0"
       ELSE IF ~(amount <= escrow.amount - escrow.releasedAmount)
            THEN "PaymentEscrow: Insufficient balance"
       ELSE IF TransferFails(escrow.payee, amount) THEN "PaymentEscrow: Transfer failed"
       ELSE ""

\* Variant: a release of amount 0 is let through.
releasePaymentErr_ZeroAllowed(caller, escrowId, amount) ==
    LET escrow == EscrowAt(escrowId)
    IN IF escrow.escrowId = 0 THEN "PaymentEscrow: Escrow does not exist"
       ELSE IF ~(escrow.status \in {"Pending", "PartiallyReleased"})
            THEN "PaymentEscrow: Cannot release payment"
       ELSE IF reentrancyStatus = "ENTERED" THEN "ReentrancyGuardReentrantCall"
       ELSE IF ~(amount <= escrow.amount - escrow.releasedAmount)
            THEN "PaymentEscrow: Insufficient balance"
       ELSE IF ~(caller = Owner \/ caller = escrow.payer)
            THEN "PaymentEscrow: Not authorized to release"
       ELSE IF TransferFails(escrow.payee, amount) THEN "PaymentEscrow: Transfer failed"
       ELSE ""

releasePaymentErr(caller, escrowId, amount) ==
    LET escrow == EscrowAt(escrowId)
    IN IF escrow.escrowId = 0 THEN "PaymentEscrow: Escrow does not exist"
       ELSE IF ~(escrow.status \in {"Pending", "PartiallyReleased"})
            THEN "PaymentEscrow: Cannot release payment"
       ELSE IF reentrancyStatus = "ENTERED" THEN "ReentrancyGuardReentrantCall"
       ELSE IF ~(amount > 0) THEN "PaymentEscrow: Amount must be greater than 0"
       ELSE IF ~(amount <= escrow.amount - escrow.releasedAmount)
            THEN "PaymentEscrow: Insufficient balance"
       ELSE IF ~(caller = Owner \/ caller = escrow.payer)
            THEN "PaymentEscrow: Not authorized to release"
       ELSE IF TransferFails(escrow.payee, amount) THEN "PaymentEscrow: Transfer failed"
       ELSE ""

\* The common tail of the three payout functions: book the release, set the
\* status and send the ether to the payee.
\* An EscrowStatusUpdated event; statusUpdated[e] is the log of those
\* emitted for escrow e, oldest first.
EscrowStatusUpdated(oldStatus, newStatus) ==
    [oldStatus |-> oldStatus, newStatus |-> newStatus]

\* The old status each releasing function writes into the event it emits
\* when the escrow has become Released.
ReportedOldStatus(kind) ==
    IF kind = "release" THEN "PartiallyReleased" ELSE "Pending"

PayOut(kind, escrowId, value, newStatus) ==
    LET escrow == escrows[escrowId]
    IN /\ escrows' = [escrows EXCEPT
             ![escrowId].releasedAmount = @ + value,
             ![escrowId].status = newStatus,
             ![escrowId].releasedAt = IF newStatus = "Released" THEN now ELSE @]
       /\ held' = held - value
       /\ received' = [received EXCEPT ![escrow.payee] = @ + value]
       /\ ledger' = [ledger EXCEPT ![escrowId][kind] = @ + value]
       /\ statusUpdated' =
             IF newStatus = "Released" /\ kind # "milestone"
             THEN [statusUpdated EXCEPT ![escrowId] =
                      Append(@, EscrowStatusUpdated(ReportedOldStatus(kind), "Released"))]
             ELSE statusUpdated
       /\ UNCHANGED <<now, tripVars, rewardVars, escrowCounter, tripToEscrow,
                      donated, reentrancyStatus, inCall>>

releasePayment(caller, escrowId, amount) ==
    LET err == releasePaymentErr(caller, escrowId, amount)
    IN /\ err = ""
       /\ PayOut("release", escrowId, amount,
              StatusAfterRelease(escrows[escrowId].amount,
                                 escrows[escrowId].releasedAmount + amount))

Min(a, b) == IF a < b THEN a ELSE b

amountToRelease(escrow) ==
    Min((escrow.amount * escrow.conditions.completionPercentage) \div 100,
        escrow.amount - escrow.releasedAmount)

\* Variant: the trip status is not looked at.
releaseOnTripCompletionErr_NoDeliveredCheck(caller, escrowId, tripId) ==
    LET escrow == EscrowAt(escrowId)
    IN IF escrow.escrowId = 0 THEN "PaymentEscrow: Escrow does not exist"
       ELSE IF ~(escrow.status \in {"Pending", "PartiallyReleased"})
            THEN "PaymentEscrow: Cannot release payment"
       ELSE IF reentrancyStatus = "ENTERED" THEN "ReentrancyGuardReentrantCall"
       ELSE IF escrow.tripId # tripId THEN "PaymentEscrow: Trip ID mismatch"
       ELSE IF getTripMetadataReverts(tripId) THEN "TripRegistry: Trip does not exist"
       ELSE IF ~(amountToRelease(escrow) > 0) THEN "PaymentEscrow: No amount to release"
       ELSE IF TransferFails(escrow.payee, amountToRelease(escrow))
            THEN "PaymentEscrow: Transfer failed"
       ELSE ""

\* Variant: a trip still in transit counts as completed.
releaseOnTripCompletionErr_InTransitAccepted(caller, escrowId, tripId) ==
    LET escrow == EscrowAt(escrowId)
    IN IF escrow.escrowId = 0 THEN "PaymentEscrow: Escrow does not exist"
       ELSE IF ~(escrow.status \in {"Pending", "PartiallyReleased"})
            THEN "PaymentEscrow: Cannot release payment"
       ELSE IF reentrancyStatus = "ENTERED" THEN "ReentrancyGuardReentrantCall"
       ELSE IF escrow.tripId # tripId THEN "PaymentEscrow: Trip ID mismatch"
       ELSE IF getTripMetadataReverts(tripId) THEN "TripRegistry: Trip does not exist"
       ELSE IF ~(TripAt(tripId).status \in {"InTransit", "Delivered"})
            THEN "PaymentEscrow: Trip not completed"
       ELSE IF ~(amountToRelease(escrow) > 0) THEN "PaymentEscrow: No amount to release"
       ELSE IF TransferFails(escrow.payee, amountToRelease(escrow))
            THEN "PaymentEscrow: Transfer failed"
       ELSE ""

releaseOnTripCompletionErr(caller, escrowId, tripId) ==
    LET escrow == EscrowAt(escrowId)
    IN IF escrow.escrowId = 0 THEN "PaymentEscrow: Escrow does not exist"
       ELSE IF ~(escrow.status \in {"Pending", "PartiallyReleased"})
            THEN "PaymentEscrow: Cannot release payment"
       ELSE IF reentrancyStatus = "ENTERED" THEN "ReentrancyGuardReentrantCall"
       ELSE IF escrow.tripId # tripId THEN "PaymentEscrow: Trip ID mismatch"
       ELSE IF getTripMetadataReverts(tripId) THEN "TripRegistry: Trip does not exist"
       ELSE IF TripAt(tripId).status # "Delivered" THEN "PaymentEscrow: Trip not completed"
       ELSE IF ~(amountToRelease(escrow) > 0) THEN "PaymentEscrow: No amount to release"
       ELSE IF TransferFails(escrow.payee, amountToRelease(escrow))
            THEN "PaymentEscrow: Transfer failed"
       ELSE ""

releaseOnTripCompletion(caller, escrowId, tripId) ==
    LET err == releaseOnTripCompletionErr(caller, escrowId, tripId)
    IN /\ err = ""
       /\ PayOut("completion", escrowId,
              amountToRelease(escrows[escrowId]),
              StatusAfterRelease(escrows[escrowId].amount,
                                 escrows[escrowId].releasedAmount
                                   + amountToRelease(escrows[escrowId])))

milestoneAmount(escrow) ==
    (escrow.amount * escrow.conditions.milestonePercentage) \div 100

\* Variant: a milestone may also be completed on a partially released escrow.
completeMilestoneErr_AnyOpenStatus(caller, escrowId) ==
    LET escrow == EscrowAt(escrowId)
    IN IF escrow.escrowId = 0 THEN "PaymentEscrow: Escrow does not exist"
       ELSE IF ~(escrow.status \in {"Pending", "PartiallyReleased"})
            THEN "PaymentEscrow: Escrow not in pending status"
       ELSE IF ~(milestoneAmount(escrow) > 0) THEN "PaymentEscrow: Invalid milestone amount"
       ELSE IF ~(escrow.releasedAmount + milestoneAmount(escrow) <= escrow.amount)
            THEN "PaymentEscrow: Exceeds escrow amount"
       ELSE IF TransferFails(escrow.payee, milestoneAmount(escrow))
            THEN "PaymentEscrow: Transfer failed"
       ELSE ""

completeMilestoneErr(caller, escrowId) ==
    LET escrow == EscrowAt(escrowId)
    IN IF escrow.escrowId = 0 THEN "PaymentEscrow: Escrow does not exist"
       ELSE IF escrow.status # "Pending" THEN "PaymentEscrow: Escrow not in pending status"
       ELSE IF ~(milestoneAmount(escrow) > 0) THEN "PaymentEscrow: Invalid milestone amount"
       ELSE IF ~(escrow.releasedAmount + milestoneAmount(escrow) <= escrow.amount)
            THEN "PaymentEscrow: Exceeds escrow amount"
       ELSE IF TransferFails(escrow.payee, milestoneAmount(escrow))
            THEN "PaymentEscrow: Transfer failed"
       ELSE ""

completeMilestone(caller, escrowId) ==
    LET err == completeMilestoneErr(caller, escrowId)
    IN /\ err = ""
       /\ PayOut("milestone", escrowId,
              milestoneAmount(escrows[escrowId]), "PartiallyReleased")

refundPaymentErr(caller, escrowId) ==
    LET escrow == EscrowAt(escrowId)
    IN IF escrow.escrowId = 0 THEN "PaymentEscrow: Escrow does not exist"
       ELSE IF caller # Owner THEN "OwnableUnauthorizedAccount"
       ELSE IF reentrancyStatus = "ENTERED" THEN "ReentrancyGuardReentrantCall"
       ELSE IF ~(escrow.status \in {"Pending", "PartiallyReleased"})
            THEN "PaymentEscrow: Cannot refund"
       ELSE IF ~(escrow.amount - escrow.releasedAmount > 0)
            THEN "PaymentEscrow: No amount to refund"
       ELSE IF TransferFails(escrow.payer, escrow.amount - escrow.releasedAmount)
            THEN "PaymentEscrow: Refund failed"
       ELSE ""

\* Variant: the refund returns the whole amount, released or not.
refundPayment_WholeAmount(caller, escrowId) ==
    LET err == refundPaymentErr(caller, escrowId)
        escrow == escrows[escrowId]
        refundAmount == escrow.amount
    IN /\ err = ""
       /\ escrows' = [escrows EXCEPT ![escrowId].status = "Refunded"]
       /\ held' = held - refundAmount
       /\ received' = [received EXCEPT ![escrow.payer] = @ + refundAmount]
       /\ ledger' = [ledger EXCEPT ![escrowId].refund = @ + refundAmount]
       /\ statusUpdated' = [statusUpdated EXCEPT ![escrowId] =
             Append(@, EscrowStatusUpdated(escrows'[escrowId].status, "Refunded"))]
       /\ UNCHANGED <<now, tripVars, rewardVars, escrowCounter, tripToEscrow,
                      donated, reentrancyStatus, inCall>>

refundPayment(caller, escrowId) ==
    LET err == refundPaymentErr(caller, escrowId)
        escrow == escrows[escrowId]
        refundAmount == escrow.amount - escrow.releasedAmount
    IN /\ err = ""
       /\ escrows' = [escrows EXCEPT ![escrowId].status = "Refunded"]
       /\ held' = held - refundAmount
       /\ received' = [received EXCEPT ![escrow.payer] = @ + refundAmount]
       /\ ledger' = [ledger EXCEPT ![escrowId].refund = @ + refundAmount]
       /\ statusUpdated' = [statusUpdated EXCEPT ![escrowId] =
             Append(@, EscrowStatusUpdated(escrows'[escrowId].status, "Refunded"))]
       /\ UNCHANGED <<now, tripVars, rewardVars, escrowCounter, tripToEscrow,
                      donated, reentrancyStatus, inCall>>

\* receive(): the contract accepts plain ether, booked to no escrow.
receive(caller, value) ==
    /\ donated + value <= MaxDonation
    /\ held' = held + value
    /\ donated' = donated + value
    /\ UNCHANGED <<now, tripVars, rewardVars, escrowCounter, escrows,
                   tripToEscrow, ledger,
                   received, statusUpdated, reentrancyStatus, inCall>>

\* ---------------- the paying functions when the recipient runs code
\* A paying function up to and including its call{value: ...}(""): the
\* checks have passed, the record is written, the function's nonReentrant
\* guard (if it has one) is taken and the ether has left; the recipient's
\* code runs next.  What the function does after the call is callReturns.
PayOutCall(kind, escrowId, value, newStatus, guarded) ==
    LET escrow == escrows[escrowId]
    IN /\ inCall = NoCall
       /\ escrows' = [escrows EXCEPT
             ![escrowId].releasedAmount = @ + value,
             ![escrowId].status = newStatus,
             ![escrowId].releasedAt = IF newStatus = "Released" THEN now ELSE @]
       /\ held' = held - value
       /\ received' = [received EXCEPT ![escrow.payee] = @ + value]
       /\ ledger' = [ledger EXCEPT ![escrowId][kind] = @ + value]
       /\ reentrancyStatus' = IF guarded THEN "ENTERED" ELSE reentrancyStatus
       /\ inCall' = [kind |-> kind, escrowId |-> escrowId,
                     recipient |-> escrow.payee]
       /\ UNCHANGED <<now, tripVars, rewardVars, escrowCounter, tripToEscrow,
                      donated, statusUpdated>>

releasePaymentCall(caller, escrowId, amount) ==
    LET err == releasePaymentErr(caller, escrowId, amount)
    IN /\ err = ""
       /\ PayOutCall("release", escrowId, amount,
              StatusAfterRelease(escrows[escrowId].amount,
                                 escrows[escrowId].releasedAmount + amount),
              TRUE)

releaseOnTripCompletionCall(caller, escrowId, tripId) ==
    LET err == releaseOnTripCompletionErr(caller, escrowId, tripId)
    IN /\ err = ""
       /\ PayOutCall("completion", escrowId,
              amountToRelease(escrows[escrowId]),
              StatusAfterRelease(escrows[escrowId].amount,
                                 escrows[escrowId].releasedAmount
                                   + amountToRelease(escrows[escrowId])),
              TRUE)

\* completeMilestone carries no nonReentrant modifier.
completeMilestoneCall(caller, escrowId) ==
    LET err == completeMilestoneErr(caller, escrowId)
    IN /\ err = ""
       /\ PayOutCall("milestone", escrowId,
              milestoneAmount(escrows[escrowId]), "PartiallyReleased", FALSE)

refundPaymentCall(caller, escrowId) ==
    LET err == refundPaymentErr(caller, escrowId)
        escrow == escrows[escrowId]
        refundAmount == escrow.amount - escrow.releasedAmount
    IN /\ err = ""
       /\ inCall = NoCall
       /\ escrows' = [escrows EXCEPT ![escrowId].status = "Refunded"]
       /\ held' = held - refundAmount
       /\ received' = [received EXCEPT ![escrow.payer] = @ + refundAmount]
       /\ ledger' = [ledger EXCEPT ![escrowId].refund = @ + refundAmount]
       /\ reentrancyStatus' = "ENTERED"
       /\ inCall' = [kind |-> "refund", escrowId |-> escrowId,
                     recipient |-> escrow.payer]
       /\ UNCHANGED <<now, tripVars, rewardVars, escrowCounter, tripToEscrow,
                      donated, statusUpdated>>

\* The recipient's code has returned: the function emits its events,
\* reading escrow.status from storage as it is now, and a nonReentrant
\* function gives the guard back.
callReturns ==
    LET kind == inCall.kind
        escrowId == inCall.escrowId
    IN /\ inCall # NoCall
       /\ statusUpdated' =
             IF kind = "refund"
             THEN [statusUpdated EXCEPT ![escrowId] =
                      Append(@, EscrowStatusUpdated(escrows[escrowId].status, "Refunded"))]
             ELSE IF kind # "milestone" /\ escrows[escrowId].status = "Released"
             THEN [statusUpdated EXCEPT ![escrowId] =
                      Append(@, EscrowStatusUpdated(ReportedOldStatus(kind), "Released"))]
             ELSE statusUpdated
       /\ reentrancyStatus' =
             IF kind = "milestone" THEN reentrancyStatus ELSE "NOT_ENTERED"
       /\ inCall' = NoCall
       /\ UNCHANGED <<now, tripVars, rewardVars, escrowCounter, escrows,
                      tripToEscrow, held, ledger, received, donated>>

\* getEscrowBalance: the available balance the contract reports.
getEscrowBalance(escrowId) ==
    escrows[escrowId].amount - escrows[escrowId].releasedAmount

\* ====================================================== CarbonCredits
\* Variant: the bonus is taken on the offset, not on the base amount.
calculateReward_BonusOnOffset(carbonOffset, rewardType) ==
    LET baseAmount == carbonOffset * rewardParameters.baseMultiplier
        bonus ==
            IF rewardType = "LowCarbonFootprint"
            THEN (carbonOffset * rewardParameters.lowCarbonBonus) \div 100
            ELSE IF rewardType = "CarbonNeutral"
            THEN (carbonOffset * rewardParameters.carbonNeutralBonus) \div 100
            ELSE IF rewardType = "BatchOptimization"
            THEN (carbonOffset * rewardParameters.batchOptimizationBonus) \div 100
            ELSE 0
    IN baseAmount + bonus

\* Variant: the amount also grows with the number of rewards minted so far.
calculateReward_CountDependent(carbonOffset, rewardType) ==
    LET baseAmount == carbonOffset * rewardParameters.baseMultiplier + rewardCounter
        bonus ==
            IF rewardType = "LowCarbonFootprint"
            THEN (baseAmount * rewardParameters.lowCarbonBonus) \div 100
            ELSE IF rewardType = "CarbonNeutral"
            THEN (baseAmount * rewardParameters.carbonNeutralBonus) \div 100
            ELSE IF rewardType = "BatchOptimization"
            THEN (baseAmount * rewardParameters.batchOptimizationBonus) \div 100
            ELSE 0
    IN baseAmount + bonus

calculateReward(carbonOffset, rewardType) ==
    LET baseAmount == carbonOffset * rewardParameters.baseMultiplier
        bonus ==
            IF rewardType = "LowCarbonFootprint"
            THEN (baseAmount * rewardParameters.lowCarbonBonus) \div 100
            ELSE IF rewardType = "CarbonNeutral"
            THEN (baseAmount * rewardParameters.carbonNeutralBonus) \div 100
            ELSE IF rewardType = "BatchOptimization"
            THEN (baseAmount * rewardParameters.batchOptimizationBonus) \div 100
            ELSE 0
    IN baseAmount + bonus

\* For the MVP only the owner is a minter.
isAuthorizedMinter(account) == account = Owner

\* Variant: minting without the onlyMinter modifier.
mintRewardErr_AnyMinter(caller, recipient, tripId, carbonOffset, rewardType) ==
    IF recipient = Zero THEN "CarbonCredits: Invalid recipient"
    ELSE IF ~(carbonOffset > 0)
         THEN "CarbonCredits: Carbon offset must be greater than 0"
    ELSE IF ~(calculateReward(carbonOffset, rewardType) > 0)
         THEN "CarbonCredits: Calculated reward is zero"
    ELSE ""

mintRewardErr(caller, recipient, tripId, carbonOffset, rewardType) ==
    IF ~(caller = Owner \/ isAuthorizedMinter(caller))
    THEN "CarbonCredits: Not authorized minter"
    ELSE IF recipient = Zero THEN "CarbonCredits: Invalid recipient"
    ELSE IF ~(carbonOffset > 0)
         THEN "CarbonCredits: Carbon offset must be greater than 0"
    ELSE IF ~(calculateReward(carbonOffset, rewardType) > 0)
         THEN "CarbonCredits: Calculated reward is zero"
    ELSE ""

\* Variant: the reward is filed under the id of its job.
mintReward_KeyedByTrip(caller, recipient, tripId, carbonOffset, rewardType) ==
    /\ rewardCounter < MaxRewards
    /\ tripId \in DOMAIN rewards
    /\ LET err == mintRewardErr(caller, recipient, tripId, carbonOffset, rewardType)
           amount == calculateReward(carbonOffset, rewardType)
       IN /\ err = ""
          /\ rewardCounter' = rewardCounter + 1
          /\ rewards' = [rewards EXCEPT ![tripId] =
                [rewardId |-> tripId, recipient |-> recipient, tripId |-> tripId,
                 amount |-> amount, carbonOffset |-> carbonOffset,
                 rewardType |-> rewardType, createdAt |-> now, claimedAt |-> now]]
          /\ userRewards' = [userRewards EXCEPT ![recipient] = Append(@, tripId)]
          /\ totalCarbonOffset' = [totalCarbonOffset EXCEPT ![recipient] = @ + carbonOffset]
          /\ balanceOf' = [balanceOf EXCEPT ![recipient] = @ + amount]
          /\ claimedRewards' = [claimedRewards EXCEPT ![tripId] = TRUE]
          /\ UNCHANGED <<now, tripVars, escrowVars, burned, rewardParameters>>

\* Variant: the reward is stored as pending, to be claimed later.
mintReward_NotMarkedClaimed(caller, recipient, tripId, carbonOffset, rewardType) ==
    /\ rewardCounter < MaxRewards
    /\ LET err == mintRewardErr(caller, recipient, tripId, carbonOffset, rewardType)
           amount == calculateReward(carbonOffset, rewardType)
           rewardId == rewardCounter + 1
       IN /\ err = ""
          /\ rewardCounter' = rewardId
          /\ rewards' = [rewards EXCEPT ![rewardId] =
                [rewardId |-> rewardId, recipient |-> recipient, tripId |-> tripId,
                 amount |-> amount, carbonOffset |-> carbonOffset,
                 rewardType |-> rewardType, createdAt |-> now, claimedAt |-> 0]]
          /\ userRewards' = [userRewards EXCEPT ![recipient] = Append(@, rewardId)]
          /\ totalCarbonOffset' = [totalCarbonOffset EXCEPT ![recipient] = @ + carbonOffset]
          /\ balanceOf' = [balanceOf EXCEPT ![recipient] = @ + amount]
          /\ UNCHANGED <<now, tripVars, escrowVars, burned, rewardParameters, claimedRewards>>

mintReward(caller, recipient, tripId, carbonOffset, rewardType) ==
    /\ rewardCounter < MaxRewards
    /\ LET err == mintRewardErr(caller, recipient, tripId, carbonOffset, rewardType)
           amount == calculateReward(carbonOffset, rewardType)
           rewardId == rewardCounter + 1
       IN /\ err = ""
          /\ rewardCounter' = rewardId
          /\ rewards' = [rewards EXCEPT ![rewardId] =
                [rewardId |-> rewardId, recipient |-> recipient, tripId |-> tripId,
                 amount |-> amount, carbonOffset |-> carbonOffset,
                 rewardType |-> rewardType, createdAt |-> now, claimedAt |-> now]]
          /\ userRewards' = [userRewards EXCEPT ![recipient] = Append(@, rewardId)]
          /\ totalCarbonOffset' = [totalCarbonOffset EXCEPT ![recipient] = @ + carbonOffset]
          /\ balanceOf' = [balanceOf EXCEPT ![recipient] = @ + amount]
          /\ claimedRewards' = [claimedRewards EXCEPT ![rewardId] = TRUE]
          /\ UNCHANGED <<now, tripVars, escrowVars, burned, rewardParameters>>

\* Variant: the balance of the caller is not compared with the amount.
burnCreditsErr_NoBalanceCheck(caller, amount) ==
    IF ~(amount > 0) THEN "CarbonCredits: Amount must be greater than 0"
    ELSE ""

burnCreditsErr(caller, amount) ==
    IF ~(amount > 0) THEN "CarbonCredits: Amount must be greater than 0"
    ELSE IF ~(balanceOf[caller] >= amount) THEN "CarbonCredits: Insufficient balance"
    ELSE ""

\* Variant: burning credits also takes them off the caller's offset total.
burnCredits_ReducesOffset(caller, amount) ==
    LET err == burnCreditsErr(caller, amount)
    IN /\ err = ""
       /\ balanceOf' = [balanceOf EXCEPT ![caller] = @ - amount]
       /\ burned' = burned + amount
       /\ totalCarbonOffset' = [totalCarbonOffset EXCEPT ![caller] = 0]
       /\ UNCHANGED <<now, tripVars, escrowVars, rewardCounter, rewards,
                      userRewards, rewardParameters, claimedRewards>>

burnCredits(caller, amount) ==
    LET err == burnCreditsErr(caller, amount)
    IN /\ err = ""
       /\ balanceOf' = [balanceOf EXCEPT ![caller] = @ - amount]
       /\ burned' = burned + amount
       /\ UNCHANGED <<now, tripVars, escrowVars, rewardCounter, rewards,
                      userRewards, totalCarbonOffset, rewardParameters,
                      claimedRewards>>

\* ERC20 transfer as inherited by CarbonCredits: credits move from the
\* caller to another account.
transferErr(caller, to, value) ==
    IF to = Zero THEN "ERC20InvalidReceiver"
    ELSE IF balanceOf[caller] < value THEN "ERC20InsufficientBalance"
    ELSE ""

\* Variant: the credits arrive without leaving the sender.
transfer_NoDebit(caller, to, value) ==
    LET err == transferErr(caller, to, value)
    IN /\ err = ""
       /\ balanceOf' = [balanceOf EXCEPT ![to] = @ + value]
       /\ UNCHANGED <<now, tripVars, escrowVars, rewardCounter, rewards,
                      userRewards, totalCarbonOffset, rewardParameters,
                      claimedRewards, burned>>

transfer(caller, to, value) ==
    LET err == transferErr(caller, to, value)
    IN /\ err = ""
       /\ balanceOf' = [[balanceOf EXCEPT ![caller] = @ - value]
                           EXCEPT ![to] = @ + value]
       /\ UNCHANGED <<now, tripVars, escrowVars, rewardCounter, rewards,
                      userRewards, totalCarbonOffset, rewardParameters,
                      claimedRewards, burned>>

\* The rewards of a user that are not marked claimed, in stored order.
RECURSIVE PendingOf(_)
PendingOf(ids) ==
    IF ids = <<>> THEN <<>>
    ELSE IF claimedRewards[Head(ids)] THEN PendingOf(Tail(ids))
    ELSE <<Head(ids)>> \o PendingOf(Tail(ids))

RECURSIVE AmountOf(_)
AmountOf(ids) ==
    IF ids = <<>> THEN 0 ELSE rewards[Head(ids)].amount + AmountOf(Tail(ids))

UserRewardsOf(recipient) ==
    IF recipient \in DOMAIN userRewards THEN userRewards[recipient] ELSE <<>>

getPendingRewards(recipient) == AmountOf(PendingOf(UserRewardsOf(recipient)))

claimRewardErr(caller, rewardId) ==
    IF RewardAt(rewardId).rewardId = 0 THEN "CarbonCredits: Reward does not exist"
    ELSE IF RewardAt(rewardId).recipient # caller
         THEN "CarbonCredits: Not reward recipient"
    ELSE IF claimedRewards[rewardId] THEN "CarbonCredits: Reward already claimed"
    ELSE ""

claimReward(caller, rewardId) ==
    LET err == claimRewardErr(caller, rewardId)
    IN /\ err = ""
       /\ claimedRewards' = [claimedRewards EXCEPT ![rewardId] = TRUE]
       /\ rewards' = [rewards EXCEPT ![rewardId].claimedAt = now]
       /\ balanceOf' = [balanceOf EXCEPT ![caller] = @ + rewards[rewardId].amount]
       /\ UNCHANGED <<now, tripVars, escrowVars, burned, rewardCounter, userRewards,
                      totalCarbonOffset, rewardParameters>>

claimAllRewardsErr(caller, recipient) ==
    IF recipient = Zero THEN "CarbonCredits: Invalid recipient"
    ELSE IF ~(caller = recipient \/ caller = Owner) THEN "CarbonCredits: Not authorized"
    ELSE ""

\* The value claimAllRewards returns: the sum it credits.
claimAllRewardsTotal(recipient) == getPendingRewards(recipient)

claimAllRewards(caller, recipient) ==
    LET err == claimAllRewardsErr(caller, recipient)
        pending == PendingOf(UserRewardsOf(recipient))
        ids == {pending[i] : i \in DOMAIN pending}
    IN /\ err = ""
       /\ claimedRewards' = [r \in DOMAIN claimedRewards |->
                               IF r \in ids THEN TRUE ELSE claimedRewards[r]]
       /\ rewards' = [r \in DOMAIN rewards |->
                        IF r \in ids THEN [rewards[r] EXCEPT !.claimedAt = now]
                        ELSE rewards[r]]
       /\ balanceOf' = [balanceOf EXCEPT ![recipient] = @ + AmountOf(pending)]
       /\ UNCHANGED <<now, tripVars, escrowVars, burned, rewardCounter, userRewards,
                      totalCarbonOffset, rewardParameters>>

getTotalCarbonOffset(account) ==
    IF account \in DOMAIN totalCarbonOffset THEN totalCarbonOffset[account] ELSE 0

updateRewardParametersErr(caller, parameters) ==
    IF caller # Owner THEN "OwnableUnauthorizedAccount"
    ELSE IF ~(parameters.baseMultiplier > 0) THEN "CarbonCredits: Invalid base multiplier"
    ELSE ""

updateRewardParameters(caller, parameters) ==
    LET err == updateRewardParametersErr(caller, parameters)
    IN /\ err = ""
       /\ rewardParameters' = parameters
       /\ UNCHANGED <<now, tripVars, escrowVars, burned, rewardCounter, rewards,
                      userRewards, totalCarbonOffset, claimedRewards, balanceOf>>

\* ============================================================== system
Next ==
    \/ \E c \in TripCreators, ca \in CarrierInputs, r \in ReceiverInputs,
          d \in DistanceInputs, f \in DistanceInputs, h \in HashInputs :
          createTrip(c, ca, r, d, f, h)
    \/ \E c \in Callers, t \in TripIdInputs : startTrip(c, t)
    \/ \E c \in Callers, t \in TripIdInputs, h \in HashInputs : completeTrip(c, t, h)
    \/ \E c \in Callers, t \in TripIdInputs : cancelTrip(c, t)
    \/ \E c \in Callers, t \in TripIdInputs, s \in StatusInputs :
          updateTripStatus(c, t, s)
    \/ \E c \in EscrowCreators, t \in TripIdInputs, p \in PayeeInputs,
          k \in ConditionInputs, v \in ValueInputs : createEscrow(c, t, p, k, v)
    \/ \E c \in Callers, e \in EscrowIdInputs, v \in ValueInputs :
          depositToEscrow(c, e, v)
    \/ \E c \in Callers, e \in EscrowIdInputs, a \in ReleaseInputs :
          releasePayment(c, e, a)
    \/ \E c \in Callers, e \in EscrowIdInputs, t \in TripIdInputs :
          releaseOnTripCompletion(c, e, t)
    \/ \E c \in Callers, e \in EscrowIdInputs : completeMilestone(c, e)
    \/ \E c \in Callers, e \in EscrowIdInputs : refundPayment(c, e)
    \/ \E c \in Callers, v \in DonationInputs : receive(c, v)

Spec == Init /\ [][Next]_vars

\* ------------------------------------------- the registry on its own
TripReceiverInputs == {Receiver, Shipper, Carrier, Zero}
ProofInputs == {"", "QmProof"}
TokenHolders == {Shipper, Receiver, Owner}
TransferTargets == TokenHolders \cup {Zero}

NextTrip ==
    \/ \E c \in TripCreators, ca \in CarrierInputs, r \in TripReceiverInputs,
          d \in DistanceInputs, f \in DistanceInputs, h \in HashInputs :
          createTrip(c, ca, r, d, f, h)
    \/ \E c \in Callers, t \in TripIdInputs : startTrip(c, t)
    \/ \E c \in Callers, t \in TripIdInputs, h \in ProofInputs : completeTrip(c, t, h)
    \/ \E c \in Callers, t \in TripIdInputs : cancelTrip(c, t)
    \/ \E c \in Callers, t \in TripIdInputs, s \in TripStatus :
          updateTripStatus(c, t, s)
    \/ \E c \in Callers, f \in TokenHolders, to \in TransferTargets,
          t \in TripIdInputs : transferFrom(c, f, to, t)

SpecTrip == Init /\ [][NextTrip]_vars

\* ------------------------------------- the registry as time passes
NextClock ==
    \/ \E c \in TripCreators, ca \in CarrierInputs, r \in ReceiverInputs,
          d \in DistanceInputs, f \in DistanceInputs, h \in HashInputs :
          createTrip(c, ca, r, d, f, h)
    \/ \E c \in Callers, t \in TripIdInputs : startTrip(c, t)
    \/ \E c \in Callers, t \in TripIdInputs, h \in HashInputs : completeTrip(c, t, h)
    \/ \E c \in Callers, t \in TripIdInputs : cancelTrip(c, t)
    \/ \E c \in Callers, t \in TripIdInputs, s \in TripStatus :
          updateTripStatus(c, t, s)
    \/ Tick

SpecClock == Init /\ [][NextClock]_vars

\* ----------------------- the three ledgers and the ids they hand out
IdConditionInputs == {Cond(TRUE, 0, 100), Cond(FALSE, 200, 100)}
IdValueInputs == {0, 1}
Minters == {Owner, Carrier}
RecipientInputs == {Carrier, Zero}
OffsetInputs == {0, 1}
RewardTypeInputs == {"TripCompletion", "LowCarbonFootprint"}
BurnInputs == {0, 100}

NextIds ==
    \/ \E c \in TripCreators, ca \in CarrierInputs, r \in ReceiverInputs,
          d \in DistanceInputs, f \in DistanceInputs, h \in HashInputs :
          createTrip(c, ca, r, d, f, h)
    \/ \E c \in Callers, t \in TripIdInputs : startTrip(c, t)
    \/ \E c \in Callers, t \in TripIdInputs, h \in HashInputs : completeTrip(c, t, h)
    \/ \E c \in Callers, t \in TripIdInputs : cancelTrip(c, t)
    \/ \E c \in Callers, t \in TripIdInputs, s \in StatusInputs :
          updateTripStatus(c, t, s)
    \/ \E c \in EscrowCreators, t \in TripIdInputs, p \in PayeeInputs,
          k \in IdConditionInputs, v \in IdValueInputs : createEscrow(c, t, p, k, v)
    \/ \E c \in Callers, e \in EscrowIdInputs, t \in TripIdInputs :
          releaseOnTripCompletion(c, e, t)
    \/ \E c \in Callers, e \in EscrowIdInputs : refundPayment(c, e)
    \/ \E c \in Minters, r \in RecipientInputs, t \in TripIdInputs,
          o \in OffsetInputs, k \in RewardTypeInputs : mintReward(c, r, t, o, k)
    \/ \E c \in Callers, a \in BurnInputs : burnCredits(c, a)

SpecIds == Init /\ [][NextIds]_vars

\* ------------------------- escrows opened by any party, for any payee
PartyCreators == {Shipper, Carrier, Receiver}
PartyPayees == {Carrier, Receiver, Zero}
PartyConditionInputs == {Cond(TRUE, 0, 100), Cond(FALSE, 50, 50), Cond(FALSE, 100, 0)}

NextParties ==
    \/ \E c \in TripCreators, ca \in CarrierInputs, r \in ReceiverInputs,
          d \in DistanceInputs, f \in DistanceInputs, h \in HashInputs :
          createTrip(c, ca, r, d, f, h)
    \/ \E c \in PartyCreators, t \in TripIdInputs, p \in PartyPayees,
          k \in PartyConditionInputs, v \in ValueInputs : createEscrow(c, t, p, k, v)
    \/ \E c \in Callers, e \in EscrowIdInputs, v \in ValueInputs :
          depositToEscrow(c, e, v)
    \/ \E c \in Callers, e \in EscrowIdInputs, a \in ReleaseInputs :
          releasePayment(c, e, a)
    \/ \E c \in Callers, e \in EscrowIdInputs : completeMilestone(c, e)
    \/ \E c \in Callers, e \in EscrowIdInputs : refundPayment(c, e)

SpecParties == Init /\ [][NextParties]_vars

\* ------------------- payees and payers that call back into the escrow
\* The recipient of a transfer is a contract: while the transfer is in
\* progress it calls a paying function of the escrow, once, and the ether
\* that nested call sends runs no further code.  completeMilestone is not
\* among the nested calls taken: see C35.
ReentryCreators == {Shipper, Carrier}
ReentryPayees == {Carrier, Owner}
ReentryConditionInputs == {Cond(FALSE, 50, 50), Cond(TRUE, 0, 100)}
ReentryValueInputs == {2}

NextReentry ==
    \/ /\ inCall = NoCall
       /\ \E c \in TripCreators, ca \in {Carrier}, r \in {Receiver},
             d \in DistanceInputs, f \in DistanceInputs, h \in HashInputs :
             createTrip(c, ca, r, d, f, h)
    \/ /\ inCall = NoCall
       /\ \E c \in Callers, t \in TripIdInputs : startTrip(c, t)
    \/ /\ inCall = NoCall
       /\ \E c \in Callers, t \in TripIdInputs, h \in HashInputs : completeTrip(c, t, h)
    \/ /\ inCall = NoCall
       /\ \E c \in ReentryCreators, t \in TripIdInputs, p \in ReentryPayees,
             k \in ReentryConditionInputs, v \in ReentryValueInputs :
             createEscrow(c, t, p, k, v)
    \/ \E c \in Callers, e \in EscrowIdInputs, a \in ReleaseInputs :
          releasePaymentCall(c, e, a)
    \/ \E c \in Callers, e \in EscrowIdInputs, t \in TripIdInputs :
          releaseOnTripCompletionCall(c, e, t)
    \/ \E c \in Callers, e \in EscrowIdInputs : completeMilestoneCall(c, e)
    \/ \E c \in Callers, e \in EscrowIdInputs : refundPaymentCall(c, e)
    \/ /\ inCall # NoCall
       /\ \E e \in EscrowIdInputs, a \in ReleaseInputs :
             releasePayment(inCall.recipient, e, a)
    \/ /\ inCall # NoCall
       /\ \E e \in EscrowIdInputs, t \in TripIdInputs :
             releaseOnTripCompletion(inCall.recipient, e, t)
    \/ /\ inCall # NoCall
       /\ \E e \in EscrowIdInputs : refundPayment(inCall.recipient, e)
    \/ callReturns

SpecReentry == Init /\ [][NextReentry]_vars

\* --------------- release on completion, with the owner's status override
CompletionStatusInputs == {"Created", "InTransit", "Delivered", "Cancelled"}
CompletionConditionInputs == {Cond(TRUE, 0, 100), Cond(TRUE, 50, 50)}
CompletionValueInputs == {1, 2}

NextCompletion ==
    \/ \E c \in TripCreators, ca \in {Carrier}, r \in {Receiver},
          d \in DistanceInputs, f \in DistanceInputs, h \in HashInputs :
          createTrip(c, ca, r, d, f, h)
    \/ \E c \in Callers, t \in TripIdInputs : startTrip(c, t)
    \/ \E c \in Callers, t \in TripIdInputs, h \in HashInputs : completeTrip(c, t, h)
    \/ \E c \in Callers, t \in TripIdInputs, s \in CompletionStatusInputs :
          updateTripStatus(c, t, s)
    \/ \E c \in EscrowCreators, t \in TripIdInputs, p \in {Carrier},
          k \in CompletionConditionInputs, v \in CompletionValueInputs :
          createEscrow(c, t, p, k, v)
    \/ \E c \in Callers, e \in EscrowIdInputs, t \in TripIdInputs :
          releaseOnTripCompletion(c, e, t)

SpecCompletion == Init /\ [][NextCompletion]_vars

\* ------------------------------------------ the reward ledger alone
RewardRecipients == {Carrier, Shipper, Zero}
RewardTripInputs == {1}
RewardKindInputs == {"TripCompletion", "LowCarbonFootprint"}
BurnAmounts == {0, 100}
ParameterInputs ==
    {DefaultRewardParameters,
     [baseMultiplier |-> 200, lowCarbonBonus |-> 50, carbonNeutralBonus |-> 50,
      batchOptimizationBonus |-> 0],
     [baseMultiplier |-> 0, lowCarbonBonus |-> 20, carbonNeutralBonus |-> 50,
      batchOptimizationBonus |-> 15]}

NextReward ==
    \/ \E c \in Minters, r \in RewardRecipients, t \in RewardTripInputs,
          o \in OffsetInputs, k \in RewardKindInputs : mintReward(c, r, t, o, k)
    \/ \E c \in Callers, a \in BurnAmounts : burnCredits(c, a)
    \/ \E c \in Minters, q \in ParameterInputs : updateRewardParameters(c, q)

SpecReward == Init /\ [][NextReward]_vars

\* ------------------------------ the credits in circulation
SupplyRecipients == {Carrier, Shipper}
SupplyHolders == {Carrier, Shipper, Receiver}
SupplyTransferTargets == SupplyHolders \cup {Zero}
SupplyAmounts == {0, 20, 100}

NextSupply ==
    \/ \E c \in Minters, r \in SupplyRecipients, t \in RewardTripInputs,
          o \in OffsetInputs, k \in RewardKindInputs : mintReward(c, r, t, o, k)
    \/ \E c \in SupplyHolders, a \in SupplyAmounts : burnCredits(c, a)
    \/ \E c \in SupplyHolders, to \in SupplyTransferTargets, a \in SupplyAmounts :
          transfer(c, to, a)

SpecSupply == Init /\ [][NextSupply]_vars

\* ===================================================== shared notions
EscrowIds == 1..MaxEscrows
Exists(e) == escrows[e].escrowId # 0
Open(e) == escrows[e].status \in {"Pending", "PartiallyReleased"}
Terminal(e) == escrows[e].status \in {"Released", "Refunded"}
PaidToPayee(e) == ledger[e].release + ledger[e].completion + ledger[e].milestone
TotalOut(e) == PaidToPayee(e) + ledger[e].refund
JobDelivered(e) == TripAt(escrows[e].tripId).status = "Delivered"
\* The step changes escrow e's record or moves value for it.
Touched(e) == escrows'[e] # escrows[e] \/ ledger'[e] # ledger[e]
\* The step stores a new escrow record under id e.
Created(e) == ~Exists(e) /\ escrows'[e].escrowId # 0

\* ------------------------------------------------------------------ C1
\* C1: for every escrow, after any sequence of calls, releasedAmount <= amount
\* and the value transferred out of it (to the payee by releases, to the payer
\* by refund) never exceeds the value deposited into it.
C1_NoOverpayment ==
    \A e \in EscrowIds :
        /\ escrows[e].releasedAmount <= escrows[e].amount
        /\ TotalOut(e) <= ledger[e].deposits

\* An escrow that was partly released to the payee and then refunded.
C1_Witness ==
    \E e \in EscrowIds :
        /\ PaidToPayee(e) > 0
        /\ ledger[e].refund > 0
        /\ TotalOut(e) = ledger[e].deposits

\* ------------------------------------------------------------------ C2
\* C2: conservation - in every reachable state and for every escrow, refunded
\* ones included, sum(releases) + sum(refunds) equals sum(deposits) minus the
\* available balance amount - releasedAmount that the escrow reports.
C2_Conservation ==
    \A e \in EscrowIds :
        Exists(e) => TotalOut(e) = ledger[e].deposits - getEscrowBalance(e)

\* ------------------------------------------------------------------ C3
\* C3: for an escrow whose conditions require job completion, no operation
\* transfers value to the payee while the linked job is not Delivered.
C3_PayoutGatedByJobStatus ==
    [][\A e \in EscrowIds :
          (/\ Exists(e)
           /\ escrows[e].conditions.requiresTripCompletion
           /\ ledger'[e].release + ledger'[e].completion + ledger'[e].milestone
                > PaidToPayee(e))
          => JobDelivered(e)]_vars

\* ------------------------------------------------------------------ C4
\* C4: no principal other than the administrator and the escrow's payer can
\* make value leave an escrow while the linked job is not Delivered.
C4_OnlyAuthorizedBeforeDelivery ==
    [][\A c \in Callers, e \in EscrowIds :
          (/\ Exists(e)
           /\ c # Owner
           /\ c # escrows[e].payer
           /\ ~JobDelivered(e)
           /\ \/ \E a \in ReleaseInputs : releasePayment(c, e, a)
              \/ \E t \in TripIdInputs : releaseOnTripCompletion(c, e, t)
              \/ completeMilestone(c, e)
              \/ refundPayment(c, e))
          => held' >= held]_vars

\* ------------------------------------------------------------------ C5
\* The preconditions the claim gives for release(caller, escrowId, amount).
ReleaseAllowed(c, e, a) ==
    /\ Exists(e)
    /\ Open(e)
    /\ c = Owner \/ c = escrows[e].payer
    /\ 0 < a
    /\ a <= escrows[e].amount - escrows[e].releasedAmount

\* C5: release takes effect only when the escrow is Pending or
\* PartiallyReleased, the caller is the administrator or the payer and
\* 0 < amount <= amount - releasedAmount; a request above the available
\* balance is rejected as a balance error, a request by any other caller as an
\* authorization error, and a rejected request changes nothing.
C5_ReleasePreconditions ==
    /\ [](\A c \in Callers, e \in EscrowIds, a \in ReleaseInputs :
            /\ (Exists(e) /\ Open(e) /\ a > escrows[e].amount - escrows[e].releasedAmount)
                 => releasePaymentErr(c, e, a) = "PaymentEscrow: Insufficient balance"
            /\ (Exists(e) /\ Open(e) /\ ~(c = Owner \/ c = escrows[e].payer))
                 => releasePaymentErr(c, e, a) \in
                      {"PaymentEscrow: Not authorized to release",
                       "PaymentEscrow: Insufficient balance",
                       "PaymentEscrow: Amount must be greater than 0"}
            /\ (Exists(e) /\ Open(e) /\ ~(c = Owner \/ c = escrows[e].payer)
                  /\ 0 < a /\ a <= escrows[e].amount - escrows[e].releasedAmount)
                 => releasePaymentErr(c, e, a) = "PaymentEscrow: Not authorized to release")
    /\ [][\A e \in EscrowIds :
            Touched(e) =>
              \A c \in Callers, a \in ReleaseInputs :
                releasePayment(c, e, a) => ReleaseAllowed(c, e, a)]_vars

\* A partly released escrow on which a further request above the balance and
\* a request by a stranger are both turned down.
C5_Witness ==
    \E e \in EscrowIds :
        /\ ledger[e].release > 0
        /\ escrows[e].status = "PartiallyReleased"
        /\ \E a \in ReleaseInputs :
              releasePaymentErr(escrows[e].payer, e, a) = "PaymentEscrow: Insufficient balance"
        /\ \E c \in Callers, a \in ReleaseInputs :
              releasePaymentErr(c, e, a) = "PaymentEscrow: Not authorized to release"

\* ------------------------------------------------------------------ C6
\* C6: releaseOnCompletion, by any caller, takes effect only if
\* escrow.jobId = jobId and the job is Delivered; it then pays the payee
\* exactly min(amount * completionPercent / 100, amount - releasedAmount),
\* which must be positive, and sets Released when releasedAmount reaches
\* amount, else PartiallyReleased; with completionPercent = 100 and nothing
\* released before, the whole amount is paid and the escrow is Released.
C6_ReleaseOnCompletion ==
    [][\A e \in EscrowIds :
        Touched(e) =>
          \A c \in Callers, t \in TripIdInputs :
          releaseOnTripCompletion(c, e, t) =>
            LET esc == escrows[e]
                target == (esc.amount * esc.conditions.completionPercentage) \div 100
                remaining == esc.amount - esc.releasedAmount
                toRelease == IF target < remaining THEN target ELSE remaining
            IN /\ Exists(e)
               /\ Open(e)
               /\ esc.tripId = t
               /\ TripAt(t).status = "Delivered"
               /\ toRelease > 0
               /\ ledger'[e].completion = ledger[e].completion + toRelease
               /\ received'[esc.payee] = received[esc.payee] + toRelease
               /\ held' = held - toRelease
               /\ escrows'[e].releasedAmount = esc.releasedAmount + toRelease
               /\ escrows'[e].status =
                    IF escrows'[e].releasedAmount = esc.amount
                    THEN "Released" ELSE "PartiallyReleased"
               /\ (esc.conditions.completionPercentage = 100 /\ esc.releasedAmount = 0)
                    => (toRelease = esc.amount /\ escrows'[e].status = "Released")]_vars

\* Scenario 2: the whole deposit went to the payee on completion.
C6_Witness ==
    \E e \in EscrowIds :
        /\ escrows[e].conditions.completionPercentage = 100
        /\ escrows[e].status = "Released"
        /\ ledger[e].completion = escrows[e].amount
        /\ received[escrows[e].payee] = escrows[e].amount

\* ------------------------------------------------------------------ C7
\* C7: refund by the administrator on any escrow that is Pending or
\* PartiallyReleased succeeds, pays the full remaining balance to the payer
\* and sets Refunded; by anyone else it is rejected with no state change.
C7_Refund ==
    /\ [](\A e \in EscrowIds :
            (Exists(e) /\ Open(e)) => refundPaymentErr(Owner, e) = "")
    /\ [][\A c \in Callers, e \in EscrowIds :
            refundPayment(c, e) =>
              /\ c = Owner
              /\ escrows'[e].status = "Refunded"
              /\ ledger'[e].refund =
                   ledger[e].refund + (escrows[e].amount - escrows[e].releasedAmount)
              /\ received'[escrows[e].payer] =
                   received[escrows[e].payer]
                     + (escrows[e].amount - escrows[e].releasedAmount)]_vars

\* ------------------------------------------------------------------ C8
\* C8: Released and Refunded are terminal - once an escrow has one of these
\* statuses every later deposit, release, releaseOnCompletion,
\* completeMilestone and refund on it is rejected, no field of the record
\* changes and no further value moves for it.
C8_TerminalStates ==
    /\ [](\A e \in EscrowIds :
            (Exists(e) /\ Terminal(e)) =>
              \A c \in Callers :
                /\ \A v \in ValueInputs : depositToEscrowErr(c, e, v) # ""
                /\ \A a \in ReleaseInputs : releasePaymentErr(c, e, a) # ""
                /\ \A t \in TripIdInputs : releaseOnTripCompletionErr(c, e, t) # ""
                /\ completeMilestoneErr(c, e) # ""
                /\ refundPaymentErr(c, e) # "")
    /\ [][\A e \in EscrowIds :
            (Exists(e) /\ Terminal(e)) =>
              (escrows'[e] = escrows[e] /\ ledger'[e] = ledger[e])]_vars

\* A refunded escrow whose payer, the administrator and the payee still have
\* funds and a delivered job to try with.
C8_Witness ==
    \E e \in EscrowIds :
        /\ escrows[e].status = "Refunded"
        /\ PaidToPayee(e) > 0
        /\ JobDelivered(e)
        /\ held > 0

\* ------------------------------------------------------------------ C9
\* C9: at most one escrow ever exists per job - no two escrow records share a
\* jobId, and createEscrow for a job that already has an escrow, in whatever
\* status, is rejected.
C9_OneEscrowPerJob ==
    /\ [](\A e1 \in EscrowIds, e2 \in EscrowIds :
            (Exists(e1) /\ Exists(e2) /\ e1 # e2)
              => escrows[e1].tripId # escrows[e2].tripId)
    /\ [][\A n \in EscrowIds :
            Created(n) =>
              ~\E e \in EscrowIds : Exists(e) /\ escrows[e].tripId = escrows'[n].tripId]_vars

\* The job's escrow is closed and a fresh, otherwise valid createEscrow for
\* the same job is turned down.
C9_Witness ==
    \E e \in EscrowIds :
        /\ Exists(e)
        /\ Terminal(e)
        /\ escrowCounter < MaxEscrows
        /\ createEscrowErr(Shipper, escrows[e].tripId, Carrier, Cond(TRUE, 0, 100), 1)
             = "PaymentEscrow: Escrow already exists for trip"

\* ----------------------------------------------------------------- C10
\* C10: createEscrow is rejected, creating no record and consuming no id,
\* when the deposit is 0, the payee is the zero identity, the job does not
\* exist or milestonePercent + completionPercent > 100; on success the new
\* record is Pending with amount = deposit, releasedAmount = 0 and
\* payer = caller.  Hence every stored escrow has
\* milestonePercent + completionPercent <= 100 and amount > 0.
C10_CreateEscrow ==
    /\ [](\A e \in EscrowIds :
            Exists(e) =>
              /\ escrows[e].conditions.milestonePercentage
                   + escrows[e].conditions.completionPercentage <= 100
              /\ escrows[e].amount > 0)
    /\ [][(\E n \in EscrowIds : Created(n)) =>
            \A c \in EscrowCreators, t \in TripIdInputs, p \in PayeeInputs,
               k \in ConditionInputs, v \in ValueInputs :
            createEscrow(c, t, p, k, v) =>
              /\ v > 0
              /\ p # Zero
              /\ TripAt(t).tripId # 0
              /\ k.milestonePercentage + k.completionPercentage <= 100
              /\ escrowCounter' = escrowCounter + 1
              /\ escrows'[escrowCounter'] =
                   [escrowId |-> escrowCounter', tripId |-> t, payer |-> c,
                    payee |-> p, amount |-> v, releasedAmount |-> 0,
                    status |-> "Pending", createdAt |-> now, releasedAt |-> 0,
                    conditions |-> k]]_vars
    /\ [][escrowCounter' # escrowCounter =>
            (escrowCounter' = escrowCounter + 1 /\ ~Exists(escrowCounter')
               /\ escrows'[escrowCounter'].escrowId = escrowCounter')]_vars

\* One escrow was created as described, and in that same state requests with
\* no deposit, with the zero payee and for an unknown job are turned down.
C10_Witness ==
    /\ escrowCounter = 1
    /\ escrows[1].status = "Pending"
    /\ escrows[1].releasedAmount = 0
    /\ escrows[1].amount > 0
    /\ escrows[1].payer = Shipper
    /\ createEscrowErr(Shipper, 1, Carrier, Cond(TRUE, 0, 100), 0)
         = "PaymentEscrow: Must send payment"
    /\ createEscrowErr(Shipper, 1, Zero, Cond(TRUE, 0, 100), 1)
         = "PaymentEscrow: Invalid payee address"
    /\ createEscrowErr(Shipper, MaxTrips + 1, Carrier, Cond(TRUE, 0, 100), 1)
         = "PaymentEscrow: Trip does not exist"

\* ============================================== job registry claims
TripIds == 1..MaxTrips
TripExists(t) == trips[t].tripId # 0
\* A step that the administrator's updateTripStatus can take on job t.
OverrideStep(t) == \E s \in TripStatus : updateTripStatus(Owner, t, s)

\* C11: startTrip, completeTrip and cancelTrip change a job's status only
\* Created -> InTransit, InTransit -> Delivered and Created|InTransit ->
\* Cancelled respectively; startTrip outside Created, completeTrip outside
\* InTransit and cancelTrip in Delivered or Cancelled are rejected even for
\* the entitled caller; and a step that takes the status from Delivered or
\* Cancelled back to Created or InTransit is an updateTripStatus step.
C11_OrdinaryTransitions ==
    /\ [](\A t \in TripIds, c \in Callers :
            TripExists(t) =>
              /\ (trips[t].carrier = c /\ trips[t].status # "Created")
                   => startTripErr(c, t) = "TripRegistry: Trip cannot be started"
              /\ (trips[t].carrier = c /\ trips[t].status # "InTransit")
                   => completeTripErr(c, t) = "TripRegistry: Trip cannot be completed"
              /\ (c \in {trips[t].shipper, trips[t].carrier}
                    /\ trips[t].status \in {"Delivered", "Cancelled"})
                   => cancelTripErr(c, t) = "TripRegistry: Trip cannot be cancelled")
    /\ [][\A t \in TripIds :
            trips'[t] # trips[t] =>
              /\ \A c \in Callers :
                   /\ startTrip(c, t) =>
                        trips[t].status = "Created" /\ trips'[t].status = "InTransit"
                   /\ (\E h \in ProofInputs : completeTrip(c, t, h)) =>
                        trips[t].status = "InTransit" /\ trips'[t].status = "Delivered"
                   /\ cancelTrip(c, t) =>
                        /\ trips[t].status \in {"Created", "InTransit"}
                        /\ trips'[t].status = "Cancelled"
              /\ (trips[t].status \in {"Delivered", "Cancelled"}
                    /\ trips'[t].status \in {"Created", "InTransit"})
                   => OverrideStep(t)]_vars

\* A delivered job (completeTrip has acted) that its carrier can neither
\* start again nor cancel.
C11_Witness ==
    \E t \in TripIds :
       /\ trips[t].status = "Delivered" /\ trips[t].completedAt # 0
       /\ startTripErr(trips[t].carrier, t) = "TripRegistry: Trip cannot be started"
       /\ cancelTripErr(trips[t].carrier, t) = "TripRegistry: Trip cannot be cancelled"

\* C12 as stated: over any sequence of operations, updateTripStatus
\* included, a non-zero startedAt and a non-zero completedAt never change.
C12_TimestampsSetOnce ==
    [][\A t \in TripIds :
         /\ trips[t].startedAt # 0 => trips'[t].startedAt = trips[t].startedAt
         /\ trips[t].completedAt # 0 => trips'[t].completedAt = trips[t].completedAt]_vars

\* A job whose status lets a timestamp that is already set be written again.
Rewritable(t) ==
    \/ trips[t].status = "Created" /\ trips[t].startedAt # 0
    \/ trips[t].status \in {"Created", "InTransit"} /\ trips[t].completedAt # 0

\* C12, amended: startedAt is written only by startTrip on a Created job
\* and completedAt only by completeTrip on an InTransit job, each with the
\* current time; neither is ever reset to zero; and a job gets into a
\* status in which a set timestamp can be written again only by an
\* updateTripStatus step, so without the override each is set at most once.
C12_TimestampsSetOnceUnlessOverridden ==
    [][\A t \in TripIds :
         /\ trips[t].startedAt # 0 => trips'[t].startedAt # 0
         /\ trips[t].completedAt # 0 => trips'[t].completedAt # 0
         /\ trips'[t].startedAt # trips[t].startedAt =>
              /\ trips[t].status = "Created" /\ trips'[t].status = "InTransit"
              /\ trips'[t].startedAt = now
         /\ trips'[t].completedAt # trips[t].completedAt =>
              /\ trips[t].status = "InTransit" /\ trips'[t].status = "Delivered"
              /\ trips'[t].completedAt = now
         /\ (~Rewritable(t) /\ Rewritable(t)' /\ TripExists(t)) => OverrideStep(t)
         /\ (trips[t].startedAt # 0 /\ trips'[t].startedAt # trips[t].startedAt)
              => Rewritable(t)
         /\ (trips[t].completedAt # 0 /\ trips'[t].completedAt # trips[t].completedAt)
              => Rewritable(t)]_vars

\* A job started a second time, after its completion, at a later time.
C12_Witness ==
    \E t \in TripIds :
       /\ trips[t].status = "InTransit"
       /\ trips[t].completedAt # 0
       /\ trips[t].startedAt > trips[t].completedAt

\* C13 as stated: in every stored job createdAt <= startedAt once startedAt
\* is set, startedAt <= completedAt once both are set, and completedAt is
\* set only when startedAt is.
C13_TimestampOrder ==
    \A t \in TripIds :
       TripExists(t) =>
         /\ trips[t].startedAt # 0 => trips[t].createdAt <= trips[t].startedAt
         /\ (trips[t].startedAt # 0 /\ trips[t].completedAt # 0)
              => trips[t].startedAt <= trips[t].completedAt
         /\ trips[t].completedAt # 0 => trips[t].startedAt # 0

\* A job whose completion is recorded without or before its start.
Misordered(t) ==
    \/ trips[t].completedAt # 0 /\ trips[t].startedAt = 0
    \/ /\ trips[t].startedAt # 0 /\ trips[t].completedAt # 0
       /\ trips[t].startedAt > trips[t].completedAt

\* A job in transit that was never started, or open again after completion.
Forced(t) ==
    \/ trips[t].status = "InTransit" /\ trips[t].startedAt = 0
    \/ trips[t].status \in {"Created", "InTransit"} /\ trips[t].completedAt # 0

\* C13, amended: with a non-decreasing clock every set timestamp of a
\* stored job lies between createdAt and the current time, so createdAt <=
\* startedAt and createdAt <= completedAt; startedAt <= completedAt, with
\* completedAt set only after startedAt, holds for every job until an
\* updateTripStatus step has put it in transit unstarted or reopened it
\* after completion: only from such a status can the order be broken.
C13_TimestampOrderUnlessOverridden ==
    /\ [](\A t \in TripIds :
            TripExists(t) =>
              /\ 0 < trips[t].createdAt /\ trips[t].createdAt <= now
              /\ trips[t].startedAt # 0 =>
                   trips[t].createdAt <= trips[t].startedAt /\ trips[t].startedAt <= now
              /\ trips[t].completedAt # 0 =>
                   trips[t].createdAt <= trips[t].completedAt /\ trips[t].completedAt <= now)
    /\ [][\A t \in TripIds :
            /\ (~Forced(t) /\ Forced(t)' /\ TripExists(t)) => OverrideStep(t)
            /\ (~Misordered(t) /\ Misordered(t)') => Forced(t)]_vars

\* A job created, started and completed in three successive blocks.
C13_Witness ==
    \E t \in TripIds :
       /\ trips[t].status = "Delivered"
       /\ trips[t].createdAt < trips[t].startedAt
       /\ trips[t].startedAt < trips[t].completedAt

\* C14: createTrip is rejected when the carrier is the zero address, the
\* receiver is the zero address, the carrier is the caller, the distance is
\* zero or the estimated footprint is zero; a step stores a new job only
\* with arguments none of which is of that kind, and takes exactly the next
\* job id and token id; so every stored job has carrier # shipper,
\* distance > 0 and estimatedCarbonFootprint > 0.
C14_CreateTripValidation ==
    /\ [](/\ \A c \in Callers, ca \in CarrierInputs, r \in TripReceiverInputs,
                d \in DistanceInputs, f \in DistanceInputs :
                (ca = Zero \/ r = Zero \/ ca = c \/ d = 0 \/ f = 0)
                   => createTripErr(c, ca, r, d, f) # ""
          /\ \A t \in TripIds :
                TripExists(t) =>
                  /\ trips[t].carrier # trips[t].shipper
                  /\ trips[t].carrier # Zero /\ trips[t].receiver # Zero
                  /\ trips[t].distance > 0
                  /\ trips[t].estimatedCarbonFootprint > 0)
    /\ [][\A t \in TripIds :
            (~TripExists(t) /\ TripExists(t)') =>
              /\ createTripErr(trips'[t].shipper, trips'[t].carrier,
                               trips'[t].receiver, trips'[t].distance,
                               trips'[t].estimatedCarbonFootprint) = ""
              /\ t = tripCounter + 1 /\ tripCounter' = t
              /\ tokenCounter' = tokenCounter + 1
              /\ tokenOwner'[tokenCounter'] = trips'[t].shipper]_vars
    /\ [][(tripCounter' # tripCounter \/ tokenCounter' # tokenCounter
             \/ (\E t \in TripIds : tokenOwner[t] = Zero /\ tokenOwner'[t] # Zero))
            => \E t \in TripIds : ~TripExists(t) /\ TripExists(t)']_vars

\* A job is stored, and the same caller is refused each malformed request.
C14_Witness ==
    /\ \E t \in TripIds : TripExists(t) /\ tripCounter = t
    /\ createTripErr(Shipper, Zero, Receiver, 1, 1) = "TripRegistry: Invalid carrier address"
    /\ createTripErr(Shipper, Carrier, Zero, 1, 1) = "TripRegistry: Invalid receiver address"
    /\ createTripErr(Shipper, Shipper, Receiver, 1, 1) = "TripRegistry: Cannot be own carrier"
    /\ createTripErr(Shipper, Carrier, Receiver, 0, 1)
         = "TripRegistry: Distance must be greater than 0"
    /\ createTripErr(Shipper, Carrier, Receiver, 1, 0)
         = "TripRegistry: Carbon footprint must be greater than 0"

\* C15 as stated: in every stored job the shipper, the carrier and the
\* receiver are three pairwise distinct principals.
C15_PartiesPairwiseDistinct ==
    \A t \in TripIds :
       TripExists(t) =>
         /\ trips[t].shipper # trips[t].carrier
         /\ trips[t].shipper # trips[t].receiver
         /\ trips[t].carrier # trips[t].receiver

\* C15, amended: in every stored job the carrier differs from the shipper
\* and none of the three parties is the zero address; the receiver is not
\* compared with the other two: createTrip accepts a receiver that is the
\* caller itself or the carrier.
C15_CarrierDistinctFromShipper ==
    /\ \A t \in TripIds :
          TripExists(t) =>
            /\ trips[t].shipper # trips[t].carrier
            /\ Zero \notin {trips[t].shipper, trips[t].carrier, trips[t].receiver}
    /\ \A c \in Callers, ca \in CarrierInputs :
          ca \notin {Zero, c} =>
            /\ createTripErr(c, ca, c, 1, 1) = ""
            /\ createTripErr(c, ca, ca, 1, 1) = ""

\* A stored job whose receiver is its shipper.
C15_Witness ==
    \E t \in TripIds : TripExists(t) /\ trips[t].receiver = trips[t].shipper

\* The current owner of job t's token.
TokenOwnerOf(t) ==
    IF getTokenIdByTrip(t) \in DOMAIN tokenOwner
    THEN tokenOwner[getTokenIdByTrip(t)] ELSE Zero

\* C16: startTrip and completeTrip go through only for the job's carrier
\* and cancelTrip only for its shipper or carrier; for every other caller,
\* whatever else it is (receiver, contract owner, owner of the job's
\* token), the call is refused as unauthorized in every status, so no such
\* call changes the job.
C16_RoleAuthorization ==
    /\ [](\A t \in TripIds, c \in Callers :
            TripExists(t) =>
              /\ c # trips[t].carrier =>
                   /\ startTripErr(c, t) = "TripRegistry: Not authorized carrier"
                   /\ completeTripErr(c, t) = "TripRegistry: Not authorized carrier"
              /\ c \notin {trips[t].shipper, trips[t].carrier} =>
                   cancelTripErr(c, t) = "TripRegistry: Not authorized")
    /\ [][\A t \in TripIds :
            trips'[t] # trips[t] =>
              \A c \in Callers :
                 /\ startTrip(c, t) => c = trips[t].carrier
                 /\ (\E h \in ProofInputs : completeTrip(c, t, h)) => c = trips[t].carrier
                 /\ cancelTrip(c, t) => c \in {trips[t].shipper, trips[t].carrier}]_vars

\* A started job whose token has passed to its receiver: neither the
\* receiver (now token owner) nor the contract owner can complete or
\* cancel it.
C16_Witness ==
    \E t \in TripIds :
       /\ trips[t].status = "InTransit" /\ trips[t].startedAt # 0
       /\ trips[t].receiver = Receiver /\ TokenOwnerOf(t) = Receiver
       /\ \A c \in {Receiver, Owner} :
             /\ completeTripErr(c, t) = "TripRegistry: Not authorized carrier"
             /\ cancelTripErr(c, t) = "TripRegistry: Not authorized"

\* A step of startTrip, completeTrip or cancelTrip on job t.
OrdinaryStep(t) ==
    \E c \in Callers :
       \/ startTrip(c, t)
       \/ \E h \in ProofInputs : completeTrip(c, t, h)
       \/ cancelTrip(c, t)

\* C17: updateTripStatus is refused for every caller but the contract
\* owner; for the owner it goes through on every stored job in every
\* status and for every requested status; and a step that changes a stored
\* job without being a start, completion or cancellation changes the
\* job's status alone: its timestamps, parties and other fields, the
\* counters, the token links and the token owners stay as they were.
C17_OverrideStatus ==
    /\ [](\A t \in TripIds :
            TripExists(t) =>
              /\ \A c \in Callers \ {Owner} : updateTripStatusErr(c, t) # ""
              /\ updateTripStatusErr(Owner, t) = ""
              /\ \A s \in TripStatus : ENABLED updateTripStatus(Owner, t, s))
    /\ [][\A t \in TripIds :
            (TripExists(t) /\ trips'[t] # trips[t] /\ ~OrdinaryStep(t)) =>
              /\ trips'[t] = [trips[t] EXCEPT !.status = trips'[t].status]
              /\ UNCHANGED <<tripCounter, tokenCounter, tokenToTrip,
                             tripToToken, tokenOwner, tokenURIs>>]_vars

\* A completed job forced back to Created: its timestamps are still set.
C17_Witness ==
    \E t \in TripIds :
       /\ trips[t].status = "Created"
       /\ trips[t].startedAt # 0 /\ trips[t].completedAt # 0

\* Accounts asked about, the zero address included.
Accounts == Principals \cup {Zero}

\* C18: isAuthorizedForTrip(tripId, account) is true exactly when the job
\* is stored and the account is its shipper, its carrier, its receiver or
\* the contract owner; for an id with no stored job it is false for every
\* account.
C18_IsAuthorized ==
    \A t \in 0..(MaxTrips + 1), a \in Accounts :
       isAuthorizedForTrip(t, a)
         <=> /\ t \in TripIds
             /\ TripExists(t)
             /\ a \in {trips[t].shipper, trips[t].carrier, trips[t].receiver, Owner}

\* A stored job whose receiver is its shipper: the shipper, the carrier and
\* the contract owner are authorized, the fourth principal is not, and
\* nobody is for the next, unused job id.
C18_Witness ==
    \E t \in TripIds :
       /\ TripExists(t) /\ trips[t].receiver = Shipper
       /\ isAuthorizedForTrip(t, Shipper) /\ isAuthorizedForTrip(t, Carrier)
       /\ isAuthorizedForTrip(t, Owner) /\ ~isAuthorizedForTrip(t, Receiver)
       /\ \A a \in Accounts : ~isAuthorizedForTrip(tripCounter + 1, a)

\* A step in which a minted token changes hands.
TokenMoves == \E k \in TripIds : tokenOwner[k] # Zero /\ tokenOwner'[k] # tokenOwner[k]

\* C19: a transfer of a job's token changes no job record and no token
\* link, and the outcome of isAuthorizedForTrip and of every role check
\* (start, complete, cancel, override) is the same after it as before, for
\* every job and caller; whoever owns the token has no right from that:
\* as a non-carrier it cannot start or complete, as neither shipper nor
\* carrier it cannot cancel; and the shipper can cancel an open job
\* whoever owns its token.
C19_TokenTransferFrame ==
    /\ [](\A t \in TripIds :
            TripExists(t) =>
              /\ TokenOwnerOf(t) # trips[t].carrier =>
                   /\ startTripErr(TokenOwnerOf(t), t) = "TripRegistry: Not authorized carrier"
                   /\ completeTripErr(TokenOwnerOf(t), t) = "TripRegistry: Not authorized carrier"
              /\ TokenOwnerOf(t) \notin {trips[t].shipper, trips[t].carrier} =>
                   cancelTripErr(TokenOwnerOf(t), t) = "TripRegistry: Not authorized"
              /\ trips[t].status \in {"Created", "InTransit"} =>
                   cancelTripErr(trips[t].shipper, t) = "")
    /\ [][TokenMoves =>
            /\ UNCHANGED <<trips, tripCounter, tokenCounter, tokenToTrip, tripToToken>>
            /\ \A t \in TripIdInputs, a \in Accounts :
                  /\ isAuthorizedForTrip(t, a)' = isAuthorizedForTrip(t, a)
                  /\ startTripErr(a, t)' = startTripErr(a, t)
                  /\ completeTripErr(a, t)' = completeTripErr(a, t)
                  /\ cancelTripErr(a, t)' = cancelTripErr(a, t)
                  /\ updateTripStatusErr(a, t)' = updateTripStatusErr(a, t)]_vars

\* An open job whose token went to a principal with no part in the job:
\* that principal is not authorized and cannot cancel, the shipper can.
C19_Witness ==
    \E t \in TripIds :
       /\ TripExists(t) /\ trips[t].status = "Created"
       /\ TokenOwnerOf(t) \notin {Zero, trips[t].shipper, trips[t].carrier,
                                  trips[t].receiver, Owner}
       /\ ~isAuthorizedForTrip(t, TokenOwnerOf(t))
       /\ cancelTripErr(TokenOwnerOf(t), t) = "TripRegistry: Not authorized"
       /\ cancelTripErr(trips[t].shipper, t) = ""

\* ================================================ identifier claims
RewardIds == 1..MaxRewards
RewardExists(r) == rewards[r].rewardId # 0
TokenMinted(k) == tokenOwner[k] # Zero

JobIdsAsked == 0..(MaxTrips + 1)
EscrowIdsAsked == 0..(MaxEscrows + 1)
RewardIdsAsked == 0..(MaxRewards + 1)
NoJob(t) == TripAt(t).tripId = 0
NoEscrow(e) == EscrowAt(e).escrowId = 0
NoReward(r) == RewardAt(r).rewardId = 0

\* Every operation of the registry and the escrow that names a job or an
\* escrow, and claimReward, refuses an id with no record behind it.
UnknownIdsRefused ==
    /\ \A t \in JobIdsAsked, c \in Callers :
          NoJob(t) =>
            /\ startTripErr(c, t) # "" /\ completeTripErr(c, t) # ""
            /\ cancelTripErr(c, t) # "" /\ updateTripStatusErr(c, t) # ""
            /\ \A p \in PayeeInputs, k \in ConditionInputs, v \in ValueInputs :
                  createEscrowErr(c, t, p, k, v) # ""
            /\ \A e \in EscrowIdsAsked : releaseOnTripCompletionErr(c, e, t) # ""
    /\ \A e \in EscrowIdsAsked, c \in Callers :
          NoEscrow(e) =>
            /\ \A v \in ValueInputs : depositToEscrowErr(c, e, v) # ""
            /\ \A a \in ReleaseInputs : releasePaymentErr(c, e, a) # ""
            /\ \A t \in JobIdsAsked : releaseOnTripCompletionErr(c, e, t) # ""
            /\ completeMilestoneErr(c, e) # "" /\ refundPaymentErr(c, e) # ""
    /\ \A r \in RewardIdsAsked, c \in Callers :
          NoReward(r) => claimRewardErr(c, r) = "CarbonCredits: Reward does not exist"

\* C22 as stated: every mutating operation refuses an id with no record
\* behind it, mintReward with the id of a job that is not stored included:
\* no reward is ever stored for a job the registry does not hold.
C22_UnknownIdsRejected ==
    /\ [](UnknownIdsRefused)
    /\ [][\A r \in RewardIds :
            (~RewardExists(r) /\ RewardExists(r)') => ~NoJob(rewards'[r].tripId)]_vars

\* C22, amended: every operation of the registry and of the escrow that
\* names a job or an escrow refuses an unknown id (createEscrow included:
\* an escrow is stored only for a stored job), and claimReward refuses an
\* unknown reward; mintReward does not look its job id up and is accepted
\* for any job id, stored or not.
C22_UnknownIdsRejectedButMint ==
    /\ [](UnknownIdsRefused)
    /\ [](\A t \in JobIdsAsked, k \in RewardType :
            mintRewardErr(Owner, Carrier, t, 1, k) = "")
    /\ [][\A e \in EscrowIds : Created(e) => ~NoJob(escrows'[e].tripId)]_vars

\* An escrow is stored for job 1 and a reward for a job id that is not.
C22_Witness ==
    /\ \E e \in EscrowIds : Exists(e) /\ ~NoJob(escrows[e].tripId)
    /\ \E r \in RewardIds : RewardExists(r) /\ NoJob(rewards[r].tripId)
    /\ createEscrowErr(Shipper, tripCounter + 1, Carrier, Cond(TRUE, 0, 100), 1)
         = "PaymentEscrow: Trip does not exist"

\* ================================================ reward ledger claims
\* Offsets the reward formula is asked about.
OffsetsAsked == 0..100

\* The bonus percentages the claim lists for the default parameters.
BonusPercent(k) ==
    CASE k = "LowCarbonFootprint" -> 20
      [] k = "CarbonNeutral" -> 50
      [] k = "BatchOptimization" -> 15
      [] OTHER -> 0

\* C23: while the parameters are the ones the constructor sets,
\* calculateReward(x, k) = x * 100 + (x * 100 * bonus(k)) / 100, truncating,
\* with bonus 0 for TripCompletion and SustainableMode, 20 for
\* LowCarbonFootprint, 50 for CarbonNeutral and 15 for BatchOptimization,
\* for every x in 0..100; and a reward minted then carries that amount.
C23_CalculateReward ==
    /\ [](rewardParameters = DefaultRewardParameters =>
            /\ \A x \in OffsetsAsked, k \in RewardType :
                  calculateReward(x, k) = x * 100 + (x * 100 * BonusPercent(k)) \div 100
            /\ calculateReward(100, "TripCompletion") = 10000
            /\ calculateReward(100, "SustainableMode") = 10000
            /\ calculateReward(100, "LowCarbonFootprint") = 12000
            /\ calculateReward(100, "CarbonNeutral") = 15000
            /\ calculateReward(100, "BatchOptimization") = 11500)
    /\ [][\A r \in RewardIds :
            (~RewardExists(r) /\ RewardExists(r)'
               /\ rewardParameters = DefaultRewardParameters) =>
              rewards'[r].amount =
                 rewards'[r].carbonOffset * 100
                   + (rewards'[r].carbonOffset * 100
                        * BonusPercent(rewards'[r].rewardType)) \div 100]_vars

\* A low-carbon reward for one kilogram minted under the default
\* parameters: 100 credits and 20 more.
C23_Witness ==
    /\ rewardParameters = DefaultRewardParameters
    /\ \E r \in RewardIds :
          /\ rewards[r].rewardType = "LowCarbonFootprint"
          /\ rewards[r].carbonOffset = 1 /\ rewards[r].amount = 120

\* Offsets used to compare the reward formula between two states.
OffsetsCompared == 0..3

\* C24 as stated: calculateReward(x, k) is the same in every reachable
\* state: no step changes the amount it returns for any input.
C24_RewardDeterminism ==
    [][\A x \in OffsetsCompared, k \in RewardType :
         calculateReward(x, k)' = calculateReward(x, k)]_vars

\* C24, amended: calculateReward(x, k) depends on its inputs and on the
\* reward parameters only: a step that leaves the parameters alone leaves
\* every result as it was; the parameters change only by
\* updateRewardParameters, which is refused for every caller but the
\* owner, and a changed multiplier changes the result for the same inputs
\* (the amounts of rewards already minted stay).
C24_RewardDependsOnParametersOnly ==
    /\ [](\A c \in Callers \ {Owner}, q \in ParameterInputs :
            updateRewardParametersErr(c, q) # "")
    /\ [][/\ rewardParameters' = rewardParameters =>
               \A x \in OffsetsCompared, k \in RewardType :
                  calculateReward(x, k)' = calculateReward(x, k)
          /\ rewardParameters' # rewardParameters =>
               /\ \E q \in ParameterInputs : updateRewardParameters(Owner, q)
               /\ rewardParameters'.baseMultiplier > 0
               /\ rewardParameters'.baseMultiplier # rewardParameters.baseMultiplier =>
                    \A x \in OffsetsCompared \ {0} :
                       calculateReward(x, "TripCompletion")'
                         # calculateReward(x, "TripCompletion")]_vars

\* A reward of 100 credits minted under the default parameters, and the
\* same inputs now worth 200 after the owner changed the multiplier.
C24_Witness ==
    /\ calculateReward(1, "TripCompletion") = 200
    /\ \E r \in RewardIds :
          /\ rewards[r].rewardType = "TripCompletion"
          /\ rewards[r].carbonOffset = 1 /\ rewards[r].amount = 100

\* A step that stores reward r.
Minted(r) == ~RewardExists(r) /\ RewardExists(r)'

\* C25: mintReward is refused for every caller but the owner, for the zero
\* recipient and for a zero offset; a step that stores a reward stores
\* exactly the next one, for a non-zero recipient and a positive offset,
\* with amount = calculateReward(offset, type), marks it claimed, appends
\* its id to the recipient's list, adds exactly the amount to the
\* recipient's balance and exactly the offset to the recipient's total, and
\* leaves every other balance, total, list and reward as it was; and no
\* balance grows in any other step.
C25_MintReward ==
    /\ [](\A c \in Callers, p \in RewardRecipients, t \in RewardTripInputs,
            o \in OffsetInputs, k \in RewardType :
            /\ c # Owner =>
                 mintRewardErr(c, p, t, o, k) = "CarbonCredits: Not authorized minter"
            /\ (p = Zero \/ o = 0) => mintRewardErr(c, p, t, o, k) # "")
    /\ [][\A r \in RewardIds :
            Minted(r) =>
              LET g == rewards'[r]
              IN /\ r = rewardCounter + 1 /\ rewardCounter' = r
                 /\ g.rewardId = r /\ g.recipient # Zero /\ g.carbonOffset > 0
                 /\ g.amount = calculateReward(g.carbonOffset, g.rewardType)
                 /\ g.amount > 0
                 /\ rewards' = [rewards EXCEPT ![r] = g]
                 /\ claimedRewards' = [claimedRewards EXCEPT ![r] = TRUE]
                 /\ userRewards' =
                      [userRewards EXCEPT ![g.recipient] = Append(@, r)]
                 /\ balanceOf' = [balanceOf EXCEPT ![g.recipient] = @ + g.amount]
                 /\ totalCarbonOffset' =
                      [totalCarbonOffset EXCEPT ![g.recipient] = @ + g.carbonOffset]]_vars
    /\ [][(\E p \in Principals : balanceOf'[p] > balanceOf[p]
                                   \/ totalCarbonOffset'[p] # totalCarbonOffset[p])
            => \E r \in RewardIds : Minted(r)]_vars

\* Two rewards for the carrier, one plain and one low-carbon: 220 credits
\* and two kilograms for the carrier, nothing for anyone else.
C25_Witness ==
    /\ rewardCounter = 2
    /\ balanceOf[Carrier] = 220 /\ totalCarbonOffset[Carrier] = 2
    /\ \A p \in Principals \ {Carrier} : balanceOf[p] = 0 /\ totalCarbonOffset[p] = 0

\* The offsets of the rewards 1..n whose recipient is p, summed.
RECURSIVE OffsetGranted(_, _)
OffsetGranted(p, n) ==
    IF n = 0 THEN 0
    ELSE (IF RewardExists(n) /\ rewards[n].recipient = p
          THEN rewards[n].carbonOffset ELSE 0) + OffsetGranted(p, n - 1)

\* C26: a stored reward never changes and is never removed, whatever
\* operation follows (minting, burning, a change of the parameters); and
\* in every state each principal's total carbon offset is the sum of the
\* offsets of the rewards granted to that principal, burnt or not.
C26_GrantsImmutable ==
    /\ [](\A p \in Principals :
            getTotalCarbonOffset(p) = OffsetGranted(p, MaxRewards))
    /\ [][\A r \in RewardIds :
            RewardExists(r) => rewards'[r] = rewards[r]]_vars

\* The carrier was granted 100 credits for one kilogram and has burnt
\* them all, under parameters changed since: the grant and the total stand.
C26_Witness ==
    /\ rewardParameters # DefaultRewardParameters
    /\ \E r \in RewardIds :
          /\ rewards[r].recipient = Carrier /\ rewards[r].amount = 100
          /\ rewardCounter = r
    /\ balanceOf[Carrier] = 0 /\ totalCarbonOffset[Carrier] = 1

\* C27: every stored reward is marked claimed, with its claim time set;
\* so claimReward is refused for every caller and every reward id and no
\* call of it can take a step, every principal's pending total is 0,
\* claimAllRewards returns 0 and no call of it changes anything; and a
\* balance grows only in the step that stores a reward, by that reward's
\* amount, so no reward is credited twice.
C27_DeadClaimPath ==
    /\ [](/\ \A r \in RewardIds :
                RewardExists(r) => claimedRewards[r] /\ rewards[r].claimedAt # 0
          /\ \A c \in Callers, r \in RewardIdsAsked :
                /\ claimRewardErr(c, r) # ""
                /\ ~ENABLED claimReward(c, r)
          /\ \A p \in Principals :
                /\ getPendingRewards(p) = 0
                /\ claimAllRewardsTotal(p) = 0
                /\ \A c \in Callers :
                      ~ENABLED (claimAllRewards(c, p) /\ rewardVars' # rewardVars))
    /\ [][\A p \in Principals :
            balanceOf'[p] > balanceOf[p] =>
              \E r \in RewardIds :
                 /\ Minted(r) /\ rewards'[r].recipient = p
                 /\ balanceOf'[p] = balanceOf[p] + rewards'[r].amount]_vars

\* The carrier holds two rewards and asks for them again: claimReward is
\* refused as already claimed, claimAllRewards is accepted and finds
\* nothing to credit.
C27_Witness ==
    /\ Len(userRewards[Carrier]) = 2
    /\ \A i \in 1..2 :
          claimRewardErr(Carrier, userRewards[Carrier][i])
            = "CarbonCredits: Reward already claimed"
    /\ claimAllRewardsErr(Carrier, Carrier) = ""
    /\ ENABLED claimAllRewards(Carrier, Carrier)
    /\ claimAllRewardsTotal(Carrier) = 0

BurnAmountsAsked == {0, 1, 99, 100, 101, 200, 201, 300, 301}

\* C28: a burn is accepted exactly when 0 < amount <= balance of the
\* caller, with the stated refusal otherwise; a step that lowers a
\* balance lowers the balance of exactly one principal, by an amount that
\* principal could burn, and leaves every other balance, every reward and
\* every offset total as it was; no balance is ever negative.
C28_BurnCredits ==
    /\ [](/\ \A p \in Principals : balanceOf[p] >= 0
          /\ \A c \in Callers, a \in BurnAmountsAsked :
                /\ (burnCreditsErr(c, a) = "") <=> (0 < a /\ a <= balanceOf[c])
                /\ (ENABLED burnCredits(c, a)) <=> (0 < a /\ a <= balanceOf[c])
                /\ a = 0 => burnCreditsErr(c, a)
                              = "CarbonCredits: Amount must be greater than 0"
                /\ a > balanceOf[c] => burnCreditsErr(c, a)
                              = "CarbonCredits: Insufficient balance")
    /\ [][\A c \in Principals :
            balanceOf'[c] < balanceOf[c] =>
              /\ balanceOf'[c] >= 0
              /\ burnCredits(c, balanceOf[c] - balanceOf'[c])
              /\ \A p \in Principals \ {c} : balanceOf'[p] = balanceOf[p]
              /\ rewards' = rewards
              /\ userRewards' = userRewards
              /\ claimedRewards' = claimedRewards
              /\ totalCarbonOffset' = totalCarbonOffset]_vars

\* The carrier was granted 200 and has burnt 100 of it: the rest can be
\* burnt, one more than the rest cannot; the shipper's balance and the
\* carrier's offset total are what the grants made them.
C28_Witness ==
    /\ \E r \in RewardIds :
          /\ RewardExists(r) /\ rewards[r].recipient = Carrier
          /\ rewards[r].amount = 200
    /\ balanceOf[Carrier] = 100
    /\ totalCarbonOffset[Carrier] = 1
    /\ balanceOf[Shipper] > 0
    /\ burnCreditsErr(Carrier, 100) = ""
    /\ burnCreditsErr(Carrier, 101) = "CarbonCredits: Insufficient balance"

\* C29: for every escrow, the value paid to the payee by all accepted
\* releaseOnTripCompletion calls together never exceeds
\* amount * completionPercentage / 100 of the escrow's amount (the amount
\* only grows, so the present amount gives the largest such share); a
\* second releaseOnTripCompletion pays no further completion share.
C29_CompletionShareOnce ==
    \A e \in EscrowIds :
        Exists(e) =>
          ledger[e].completion
            <= (escrows[e].amount * escrows[e].conditions.completionPercentage) \div 100

\* C30: completeMilestone is accepted only on a Pending escrow whose
\* milestone amount, amount * milestonePercentage / 100 truncated, is
\* above 0; the step that pays a milestone pays exactly that amount to
\* the payee, adds it to releasedAmount and leaves the escrow
\* PartiallyReleased; it is the first milestone payout of the escrow, and
\* an escrow that has had one is never Pending again, so whatever deposits
\* or other calls follow there is no second one.
C30_MilestoneOnce ==
    /\ [](\A e \in EscrowIds :
            /\ \A c \in Callers :
                  (completeMilestoneErr(c, e) = "" \/ ENABLED completeMilestone(c, e))
                    => /\ Exists(e) /\ escrows[e].status = "Pending"
                       /\ milestoneAmount(escrows[e]) > 0
            /\ ledger[e].milestone > 0 =>
                  /\ escrows[e].status # "Pending"
                  /\ \A c \in Callers :
                        completeMilestoneErr(c, e)
                          = "PaymentEscrow: Escrow not in pending status")
    /\ [][\A e \in EscrowIds :
            ledger'[e].milestone # ledger[e].milestone =>
              LET paid == (escrows[e].amount
                             * escrows[e].conditions.milestonePercentage) \div 100
                  payee == escrows[e].payee
              IN /\ escrows[e].status = "Pending"
                 /\ ledger[e].milestone = 0
                 /\ paid > 0
                 /\ ledger'[e].milestone = paid
                 /\ received'[payee] = received[payee] + paid
                 /\ held' = held - paid
                 /\ escrows'[e].releasedAmount = escrows[e].releasedAmount + paid
                 /\ escrows'[e].amount = escrows[e].amount
                 /\ escrows'[e].status = "PartiallyReleased"]_vars

\* An escrow of 1 paid its whole amount as the milestone and then took a
\* further deposit of 1: it holds value again, and a second milestone is
\* refused.
C30_Witness ==
    \E e \in EscrowIds :
        /\ Exists(e)
        /\ escrows[e].conditions.milestonePercentage = 100
        /\ ledger[e].milestone = 1
        /\ escrows[e].amount = 2 /\ escrows[e].releasedAmount = 1
        /\ escrows[e].status = "PartiallyReleased"
        /\ completeMilestoneErr(Carrier, e)
             = "PaymentEscrow: Escrow not in pending status"

\* C31: a deposit is accepted only from the escrow's payer, with a value
\* above 0, on an escrow that is Pending or PartiallyReleased; the step
\* that books a deposit on an existing escrow raises its amount by exactly
\* the value received and leaves its releasedAmount, status, payer, payee,
\* conditions and every other escrow as they were.
C31_DepositFrame ==
    /\ [](\A c \in Callers, e \in EscrowIdsAsked, v \in ValueInputs :
            (depositToEscrowErr(c, e, v) = "" \/ ENABLED depositToEscrow(c, e, v))
              => /\ ~NoEscrow(e)
                 /\ escrows[e].payer = c
                 /\ v > 0
                 /\ escrows[e].status \in {"Pending", "PartiallyReleased"})
    /\ [][\A e \in EscrowIds :
            (Exists(e) /\ ledger'[e].deposits # ledger[e].deposits) =>
              LET value == held' - held
              IN /\ value > 0
                 /\ ledger'[e].deposits = ledger[e].deposits + value
                 /\ escrows[e].status \in {"Pending", "PartiallyReleased"}
                 /\ escrows'[e] = [escrows[e] EXCEPT !.amount = @ + value]
                 /\ \A o \in EscrowIds \ {e} :
                       escrows'[o] = escrows[o] /\ ledger'[o] = ledger[o]
                 /\ received' = received]_vars

\* The payer topped up an escrow that had already paid out: the record
\* shows the larger amount, the old releasedAmount and status, and a
\* further deposit is refused to everyone but the payer.
C31_Witness ==
    \E e \in EscrowIds :
        /\ Exists(e)
        /\ ledger[e].deposits = 2 /\ escrows[e].amount = 2
        /\ escrows[e].releasedAmount = 1 /\ ledger[e].milestone = 1
        /\ escrows[e].conditions.milestonePercentage = 100
        /\ escrows[e].status = "PartiallyReleased"
        /\ escrows[e].payer = Shipper /\ escrows[e].payee = Carrier
        /\ depositToEscrowErr(Carrier, e, 1) = "PaymentEscrow: Only payer can deposit"
        /\ depositToEscrowErr(Shipper, e, 0) = "PaymentEscrow: Must send payment"
        /\ depositToEscrowErr(Shipper, e, 1) = ""

\* C32: the payer of every escrow is the shipper of the trip it is linked
\* to and the payee is that trip's carrier; so only the shipper creates
\* the one escrow of a trip, and value paid out to a payee goes to the
\* carrier of a trip only.
C32_PayerIsShipperPayeeIsCarrier ==
    /\ \A e \in EscrowIds :
          Exists(e) =>
            /\ escrows[e].payer = TripAt(escrows[e].tripId).shipper
            /\ escrows[e].payee = TripAt(escrows[e].tripId).carrier
    /\ \A p \in Principals :
          received[p] > 0 =>
            \/ \E t \in TripIds : TripExists(t) /\ trips[t].carrier = p
            \/ \E e \in EscrowIds : Exists(e) /\ escrows[e].payer = p

\* C33: the EscrowStatusUpdated events of an escrow trace its status
\* history: a step that changes the status of an escrow appends exactly
\* one event to its log, carrying the status before the step as oldStatus
\* and the status after it as newStatus, and a step that leaves the
\* status alone appends nothing.
C33_StatusEventsTraceHistory ==
    [][\A e \in EscrowIds :
         Exists(e) =>
           statusUpdated'[e] =
             IF escrows'[e].status # escrows[e].status
             THEN Append(statusUpdated[e],
                         EscrowStatusUpdated(escrows[e].status, escrows'[e].status))
             ELSE statusUpdated[e]]_vars

\* C34: Disputed is available for escrows as an override: for an escrow
\* that is still open (Pending or PartiallyReleased) there is a call that
\* moves it to status Disputed.
C34_DisputedAvailable ==
    \A e \in EscrowIds :
        (Exists(e) /\ Open(e)) =>
          ENABLED (Next /\ escrows'[e].status = "Disputed")

\* C35: while a value transfer made by releasePayment,
\* releaseOnTripCompletion, completeMilestone or refundPayment is in
\* progress, every paying call the recipient of that transfer makes back
\* into the escrow is rejected.
C35_NoReentry ==
    inCall # NoCall =>
      \A e \in EscrowIdsAsked :
         /\ \A a \in ReleaseInputs :
               releasePaymentErr(inCall.recipient, e, a) # ""
         /\ \A t \in TripIdInputs :
               releaseOnTripCompletionErr(inCall.recipient, e, t) # ""
         /\ completeMilestoneErr(inCall.recipient, e) # ""
         /\ refundPaymentErr(inCall.recipient, e) # ""

\* C36: an escrow that was not refunded has status Released exactly when
\* releasedAmount = amount; releasedAt is set exactly when the status is
\* Released; and no escrow is Pending or PartiallyReleased with nothing
\* left to pay.
C36_ReleasedIffPaidInFull ==
    \A e \in EscrowIds :
        Exists(e) =>
          /\ escrows[e].status # "Refunded" =>
                (escrows[e].status = "Released"
                   <=> escrows[e].releasedAmount = escrows[e].amount)
          /\ escrows[e].releasedAt # 0 <=> escrows[e].status = "Released"
          /\ Open(e) => escrows[e].amount - escrows[e].releasedAmount > 0

\* C37: an escrow is Pending exactly when nothing has been released or
\* refunded from it: Pending implies releasedAmount = 0 and
\* PartiallyReleased implies releasedAmount > 0; releasedAmount and amount
\* never decrease and a status other than Pending never turns into Pending.
C37_PendingIffUntouched ==
    /\ [](\A e \in EscrowIds :
            Exists(e) =>
              /\ escrows[e].status = "Pending" <=> TotalOut(e) = 0
              /\ escrows[e].status = "Pending" => escrows[e].releasedAmount = 0
              /\ escrows[e].status = "PartiallyReleased"
                    => escrows[e].releasedAmount > 0)
    /\ [][\A e \in EscrowIds :
            Exists(e) =>
              /\ escrows'[e].amount >= escrows[e].amount
              /\ escrows'[e].releasedAmount >= escrows[e].releasedAmount
              /\ escrows[e].status # "Pending" => escrows'[e].status # "Pending"]_vars

\* An escrow of 2 from which the payer released 1: PartiallyReleased with
\* a positive releasedAmount.
C37_Witness ==
    \E e \in EscrowIds :
        /\ Exists(e)
        /\ escrows[e].status = "PartiallyReleased"
        /\ ledger[e].release = 1 /\ TotalOut(e) = 1
        /\ escrows[e].releasedAmount = 1 /\ escrows[e].amount = 2

\* What the open escrows 1..n still have to pay out.
RECURSIVE Owed(_)
Owed(n) ==
    IF n = 0 THEN 0
    ELSE (IF Exists(n) /\ Open(n)
          THEN escrows[n].amount - escrows[n].releasedAmount ELSE 0) + Owed(n - 1)

C39_PaidOnlyForCompletedJobs ==
    /\ \A e \in EscrowIds :
          ledger[e].completion > 0 => TripAt(escrows[e].tripId).completedAt # 0
    /\ \A t \in TripIds :
          (TripExists(t) /\ trips[t].status = "Delivered")
            => trips[t].startedAt # 0 /\ trips[t].completedAt # 0

\* A job recorded as Delivered without its start or its completion time.
Unfinished(t) ==
    /\ trips[t].status = "Delivered"
    /\ trips[t].startedAt = 0 \/ trips[t].completedAt = 0

\* C39, amended: releaseOnTripCompletion pays only while the linked job
\* has status Delivered, and it leaves the job as it is; a job comes to be
\* Delivered with startedAt or completedAt unset only by an
\* updateTripStatus step, or by completing a job that such a step had put
\* in transit unstarted: without the override every Delivered job has both
\* set.
C39_PaidOnlyForDeliveredJobs ==
    /\ [](\A c \in Callers, e \in EscrowIdsAsked, t \in TripIdInputs :
            releaseOnTripCompletionErr(c, e, t) = ""
              => TripAt(t).status = "Delivered" /\ EscrowAt(e).tripId = t)
    /\ [][/\ \A e \in EscrowIds :
               ledger'[e].completion # ledger[e].completion =>
                 /\ TripAt(escrows[e].tripId).status = "Delivered"
                 /\ trips' = trips
          /\ \A t \in TripIds :
               (~Unfinished(t) /\ Unfinished(t)' /\ TripExists(t))
                 => OverrideStep(t) \/ Forced(t)]_vars

\* The owner declared a job Delivered that was never started, and the
\* escrow of that job has paid its completion share.
C39_Witness ==
    \E e \in EscrowIds :
        /\ Exists(e) /\ ledger[e].completion > 0
        /\ TripAt(escrows[e].tripId).status = "Delivered"
        /\ TripAt(escrows[e].tripId).startedAt = 0
        /\ TripAt(escrows[e].tripId).completedAt = 0

\* The credits held by all accounts together.
RECURSIVE BalanceSum(_)
BalanceSum(accounts) ==
    IF accounts = {} THEN 0
    ELSE LET p == CHOOSE q \in accounts : TRUE
         IN balanceOf[p] + BalanceSum(accounts \ {p})

\* The amounts of the rewards 1..n stored so far.
RECURSIVE AmountGranted(_)
AmountGranted(n) ==
    IF n = 0 THEN 0
    ELSE (IF RewardExists(n) THEN rewards[n].amount ELSE 0) + AmountGranted(n - 1)

\* C40: the balances of all principals add up to the amounts of all
\* rewards minted minus all amounts burned; a step in which that total
\* grows stores a reward, and a step in which it shrinks is a burn of the
\* difference.
C40_SupplyConservation ==
    /\ [](BalanceSum(Principals) = AmountGranted(MaxRewards) - burned)
    /\ [][/\ BalanceSum(Principals)' > BalanceSum(Principals)
               => \E r \in RewardIds : Minted(r)
          /\ BalanceSum(Principals)' < BalanceSum(Principals)
               => \E c \in Principals :
                     burnCredits(c, BalanceSum(Principals) - BalanceSum(Principals)')
          /\ burned' >= burned]_vars

\* Two rewards went to the carrier, who passed 100 on to the shipper and
\* burnt another 100.
C40_Witness ==
    /\ AmountGranted(MaxRewards) = 220
    /\ userRewards[Shipper] = <<>>
    /\ balanceOf[Shipper] = 100
    /\ burned = 100
    /\ balanceOf[Carrier] = 20

====
